---- MODULE Spec2Model ----
(***************************************************************************)
(* Verification model of the WhatsApp / calendar audit engine:             *)
(*   keyword-detector.js   KeywordDetector (signal extraction, scoring,    *)
(*                         date resolution)                                *)
(*   llm-analyzer.js       LLMAnalyzer (oracle adapter, fallback verdict)  *)
(*   run-audit (oracle-capable and keyword-only runners)                   *)
(*                         enhanceWithLLMAnalysis,                         *)
(*                         getRelevantCalendarEvents,                      *)
(*                         analyzeConflictsAndMissing                      *)
(*                                                                         *)
(* Conventions.  A string is a sequence of one-character strings.  A       *)
(* calendar day is a day number whose remainder modulo 7 is the value of   *)
(* Date.getDay() (0 = Sunday).  Confidences of the detector are counted in *)
(* thousandths (0.3 is 300); a verdict's confidence is a percentage.       *)
(***************************************************************************)
EXTENDS Integers, Sequences, FiniteSets, TLC

----------------------------------------------------------------------------
(* Bounds of the model *)

\* messages fetched for one audit run
MaxMsgs == 2
\* events held by the calendar at the time of the queries
MaxEvents == 2

\* the most matches of one kind that calculateConfidence is given
MaxCount == 3

\* the most messages that getConversationContext is given
MaxContext == 2

\* the most files that data/users holds
MaxFiles == 3

\* the most calls of the cached service and waits between them
MaxSteps == 5

\* the most calls of runAudit
MaxTriggers == 4

----------------------------------------------------------------------------
(* Characters and strings *)

Digit == {"0", "1", "2", "3", "4", "5", "6", "7", "8", "9"}

UpperCase ==
  {"A", "B", "C", "D", "E", "F", "G", "H", "I", "J", "K", "L", "M",
   "N", "O", "P", "Q", "R", "S", "T", "U", "V", "W", "X", "Y", "Z"}

LowerCase ==
  {"a", "b", "c", "d", "e", "f", "g", "h", "i", "j", "k", "l", "m",
   "n", "o", "p", "q", "r", "s", "t", "u", "v", "w", "x", "y", "z"}

\* the block U+0590..U+05FF as far as the keyword lists and patterns use it
HebrewLetter ==
  {"א", "ב", "ג", "ד", "ה", "ו", "ז", "ח", "ט", "י", "כ", "ך", "ל", "מ",
   "ם", "נ", "ן", "ס", "ע", "פ", "ף", "צ", "ץ", "ק", "ר", "ש", "ת"}

WhiteSpace == {" ", "\t", "\n", "\r"}

\* String.prototype.toLowerCase, one character
LowerOf(c) ==
  CASE c = "A" -> "a" [] c = "B" -> "b" [] c = "C" -> "c" [] c = "D" -> "d"
    [] c = "E" -> "e" [] c = "F" -> "f" [] c = "G" -> "g" [] c = "H" -> "h"
    [] c = "I" -> "i" [] c = "J" -> "j" [] c = "K" -> "k" [] c = "L" -> "l"
    [] c = "M" -> "m" [] c = "N" -> "n" [] c = "O" -> "o" [] c = "P" -> "p"
    [] c = "Q" -> "q" [] c = "R" -> "r" [] c = "S" -> "s" [] c = "T" -> "t"
    [] c = "U" -> "u" [] c = "V" -> "v" [] c = "W" -> "w" [] c = "X" -> "x"
    [] c = "Y" -> "y" [] c = "Z" -> "z" [] OTHER -> c

toLowerCase(s) == [i \in 1..Len(s) |-> LowerOf(s[i])]

\* s has the word w at position i
StartsAt(s, i, w) ==
  /\ i >= 1
  /\ i + Len(w) - 1 <= Len(s)
  /\ \A k \in 1..Len(w) : s[i + k - 1] = w[k]

\* the same, ignoring case (the i flag of a pattern)
StartsAtI(s, i, w) == StartsAt(toLowerCase(s), i, toLowerCase(w))

\* String.prototype.includes
includes(s, w) == \E i \in 1..(Len(s) - Len(w) + 1) : StartsAt(s, i, w)

\* String.prototype.trim
RECURSIVE trimStart(_)
trimStart(s) ==
  IF s # <<>> /\ s[1] \in WhiteSpace THEN trimStart(Tail(s)) ELSE s

RECURSIVE trimEnd(_)
trimEnd(s) ==
  IF s # <<>> /\ s[Len(s)] \in WhiteSpace
  THEN trimEnd(SubSeq(s, 1, Len(s) - 1)) ELSE s

trim(s) == trimEnd(trimStart(s))

\* [...new Set(list)]: the first occurrence of each element, in order
RECURSIVE Unique(_)
Unique(list) ==
  IF list = <<>> THEN <<>>
  ELSE LET init == Unique(SubSeq(list, 1, Len(list) - 1))
           last == list[Len(list)]
       IN IF \E k \in 1..Len(init) : init[k] = last THEN init
          ELSE Append(init, last)

\* Array.prototype.filter(...).length for a predicate given as a set of indices
Count(list, Keep(_)) == Cardinality({k \in 1..Len(list) : Keep(list[k])})

----------------------------------------------------------------------------
(* KeywordDetector: configuration *)

hebrewKeywords ==
  << <<"פ", "ג", "י", "ש", "ה">>,
     <<"מ", "פ", "ג", "ש">>,
     <<"פ", "ג", "י", "ש", "ת">>,
     <<"נ", "פ", "ג", "ש">>,
     <<"ל", "ה", "י", "פ", "ג", "ש">>,
     <<"מ", "י", "נ", "ו", "י">>,
     <<"ת", "ו", "ר">>,
     <<"ז", "מ", "ן">>,
     <<"מ", "ח", "ר">>,
     <<"ה", "י", "ו", "ם">>,
     <<"ש", "ע", "ה">>,
     <<"ב", "ו", "ק", "ר">>,
     <<"צ", "ה", "ר", "י", "י", "ם">>,
     <<"א", "ח", "ר", " ", "ה", "צ", "ה", "ר", "י", "י", "ם">>,
     <<"ע", "ר", "ב">>,
     <<"ר", "א", "ש", "ו", "ן">>,
     <<"ש", "נ", "י">>,
     <<"ש", "ל", "י", "ש", "י">>,
     <<"ר", "ב", "י", "ע", "י">>,
     <<"ח", "מ", "י", "ש", "י">>,
     <<"ש", "י", "ש", "י">>,
     <<"ש", "ב", "ת">>,
     <<"ב", "י", "ו", "ם">>,
     <<"ת", "א", "ר", "י", "ך">>,
     <<"מ", "ו", "ע", "ד">>,
     <<"נ", "ק", "ב", "ע">>,
     <<"ק", "ו", "ב", "ע", "י", "ם">>,
     <<"ל", "ק", "ב", "ו", "ע">>,
     <<"ל", "ת", "א", "ם">>,
     <<"ל", "ז", "מ", "ן">>,
     <<"ט", "י", "פ", "ו", "ל">>,
     <<"א", "ו", "ס", "ת", "א", "ו", "פ", "ת", "י", "ה">>,
     <<"א", "ו", "ס", "ת", "א", "ו", "פ", "ט", "י", "ה">>,
     <<"כ", "א", "ב">>,
     <<"ג", "ב">>,
     <<"ר", "ו", "פ", "א">>,
     <<"ד", "ו", "ק", "ט", "ו", "ר">>,
     <<"ק", "ל", "י", "נ", "י", "ק", "ה">>,
     <<"ב", "ד", "י", "ק", "ה">>,
     <<"ת", "ו", "ר">>,
     <<"ב", "ס", "ד", "ר">>,
     <<"מ", "ו", "כ", "ן">>,
     <<"מ", "ו", "כ", "נ", "ה">>,
     <<"ט", "ו", "ב">>,
     <<"נ", "ה", "ד", "ר">>,
     <<"מ", "ו", "ש", "ל", "ם">>,
     <<"א", "ו", "ק", "י", "י">>,
     <<"מ", "ס", "כ", "י", "ם">>,
     <<"מ", "ס", "כ", "י", "מ", "ה">>,
     <<"נ", "פ", "ל", "א">>,
     <<"י", "ו", "פ", "י">>,
     <<"ס", "ב", "ב", "ה">>,
     <<"ת", "מ", "י", "ם">>,
     <<"נ", "פ", "ג", "ש", "י", "ם">>,
     <<"נ", "פ", "ג", "ש">>,
     <<"נ", "פ", "ג", "ש", "ת">>,
     <<"נ", "י", "פ", "ג", "ש">>,
     <<"ל", "ה", "י", "פ", "ג", "ש">>,
     <<"נ", "פ", "ג", "י", "ש", "ה">>,
     <<"א", "נ", "ח", "נ", "ו">>,
     <<"י", "ה", "י", "ה">>,
     <<"י", "כ", "ו", "ל">>,
     <<"י", "כ", "ו", "ל", "ה">>,
     <<"נ", "ו", "כ", "ל">>,
     <<"ב", "ו", "א", "ו">>,
     <<"ת", "ן">>,
     <<"ת", "נ", "י">>,
     <<"מ", "ת", "א", "י", "ם">>,
     <<"מ", "ת", "א", "י", "מ", "ה">>,
     <<"נ", "ו", "ח">>,
     <<"נ", "ו", "ח", "ה">>,
     <<"א", "פ", "ש", "ר">>,
     <<"א", "פ", "ש", "ר", "י">>,
     <<"א", "צ", "ל">>,
     <<"ב", "ב", "י", "ת">>,
     <<"ב", "מ", "ש", "ר", "ד">>,
     <<"ב", "ק", "ל", "י", "נ", "י", "ק", "ה">>,
     <<"ש", "ם">>,
     <<"פ", "ה">>,
     <<"כ", "א", "ן">>,
     <<"ב", "-">>,
     <<"א", "ת">>,
     <<"ש", "ל">>,
     <<"ע", "ם">>,
     <<"א", "ח", "ר", "י">>,
     <<"ל", "פ", "נ", "י">>,
     <<"ב", "מ", "ק", "ו", "ם">> >>

englishKeywords ==
  << <<"m", "e", "e", "t", "i", "n", "g">>,
     <<"m", "e", "e", "t">>,
     <<"a", "p", "p", "o", "i", "n", "t", "m", "e", "n", "t">>,
     <<"s", "c", "h", "e", "d", "u", "l", "e">>,
     <<"s", "c", "h", "e", "d", "u", "l", "e", "d">>,
     <<"p", "l", "a", "n", "n", "e", "d">>,
     <<"t", "o", "d", "a", "y">>,
     <<"t", "o", "m", "o", "r", "r", "o", "w">>,
     <<"m", "o", "n", "d", "a", "y">>,
     <<"t", "u", "e", "s", "d", "a", "y">>,
     <<"w", "e", "d", "n", "e", "s", "d", "a", "y">>,
     <<"t", "h", "u", "r", "s", "d", "a", "y">>,
     <<"f", "r", "i", "d", "a", "y">>,
     <<"s", "a", "t", "u", "r", "d", "a", "y">>,
     <<"s", "u", "n", "d", "a", "y">>,
     <<"m", "o", "r", "n", "i", "n", "g">>,
     <<"a", "f", "t", "e", "r", "n", "o", "o", "n">>,
     <<"e", "v", "e", "n", "i", "n", "g">>,
     <<"n", "i", "g", "h", "t">>,
     <<"a", "m">>,
     <<"p", "m">>,
     <<"t", "i", "m", "e">>,
     <<"d", "a", "t", "e">>,
     <<"w", "h", "e", "n">>,
     <<"a", "t">>,
     <<"o", "n">>,
     <<"c", "a", "l", "l">>,
     <<"v", "i", "s", "i", "t">>,
     <<"d", "o", "c", "t", "o", "r">>,
     <<"c", "l", "i", "n", "i", "c">>,
     <<"c", "h", "e", "c", "k", "u", "p">>,
     <<"t", "r", "e", "a", "t", "m", "e", "n", "t">>,
     <<"t", "h", "e", "r", "a", "p", "y">>,
     <<"o", "s", "t", "e", "o", "p", "a", "t", "h">>,
     <<"s", "e", "t">>,
     <<"c", "o", "n", "f", "i", "r", "m", "e", "d">>,
     <<"g", "o", "o", "d">>,
     <<"s", "o", "u", "n", "d", "s">>,
     <<"o", "k", "a", "y">>,
     <<"o", "k">>,
     <<"r", "e", "a", "d", "y">>,
     <<"f", "i", "n", "e">>,
     <<"p", "e", "r", "f", "e", "c", "t">>,
     <<"g", "r", "e", "a", "t">>,
     <<"a", "w", "e", "s", "o", "m", "e">>,
     <<"c", "o", "o", "l">>,
     <<"w", "o", "r", "k", "s">>,
     <<"d", "o", "n", "e">>,
     <<"a", "g", "r", "e", "e", "d">>,
     <<"y", "e", "s">>,
     <<"y", "e", "p">>,
     <<"s", "u", "r", "e">>,
     <<"a", "b", "s", "o", "l", "u", "t", "e", "l", "y">>,
     <<"w", "e">>,
     <<"w", "e", "r", "e">>,
     <<"a", "r", "e">>,
     <<"l", "e", "t", "s">>,
     <<"l", "e", "t", "'", "s">>,
     <<"c", "a", "n">>,
     <<"w", "i", "l", "l">>,
     <<"s", "h", "a", "l", "l">>,
     <<"c", "o", "u", "l", "d">>,
     <<"s", "h", "o", "u", "l", "d">>,
     <<"s", "e", "e">>,
     <<"m", "e", "e", "t">>,
     <<"t", "h", "e", "r", "e">>,
     <<"h", "e", "r", "e">>,
     <<"p", "l", "a", "c", "e">>,
     <<"l", "o", "c", "a", "t", "i", "o", "n">>,
     <<"w", "h", "e", "r", "e">>,
     <<"w", "h", "e", "n">>,
     <<"t", "h", "e", "n">>,
     <<"s", "o">>,
     <<"b", "u", "t">>,
     <<"a", "n", "d">>,
     <<"t", "h", "e">>,
     <<"f", "o", "r">>,
     <<"w", "i", "t", "h">>,
     <<"a", "t">>,
     <<"i", "n">>,
     <<"o", "n">> >>

----------------------------------------------------------------------------
(* Regular expressions of the detector, as the length of the match that a  *)
(* pattern finds at one position of a string (0: no match there)           *)

charAt(s, i) == IF i \in 1..Len(s) THEN s[i] ELSE ""

Min(S) == CHOOSE x \in S : \A y \in S : x <= y

Max(S) == CHOOSE x \in S : \A y \in S : x >= y

\* n digits at position i
DigitsAt(s, i, n) == \A k \in 0..(n - 1) : charAt(s, i + k) \in Digit

\* \d{lo,hi}, greedy: the longest run of at most hi digits, 0 if shorter than lo
DigitRun(s, i, lo, hi) ==
  LET fits == {n \in lo..hi : DigitsAt(s, i, n)}
  IN IF fits = {} THEN 0 ELSE Max(fits)

\* the longest run of characters of a class at position i
RECURSIVE ClassRun(_, _, _)
ClassRun(s, i, class) ==
  IF charAt(s, i) \in class THEN 1 + ClassRun(s, i + 1, class) ELSE 0

\* (w1|w2|...): the first alternative that is at position i
WordAlt(words, s, i, ignoreCase) ==
  LET hits == {k \in 1..Len(words) :
                 IF ignoreCase THEN StartsAtI(s, i, words[k])
                 ELSE StartsAt(s, i, words[k])}
  IN IF hits = {} THEN 0 ELSE Len(words[Min(hits)])

\* \d{1,2} followed by the character sep
DigitsThen(s, i, sep) ==
  IF DigitsAt(s, i, 2) /\ charAt(s, i + 2) = sep THEN 2
  ELSE IF DigitsAt(s, i, 1) /\ charAt(s, i + 1) = sep THEN 1
  ELSE 0

\* \d{1,2}<sep>\d{1,2}<sep>\d{2,4}
NumericDateLen(s, i, sep) ==
  LET a == DigitsThen(s, i, sep)
      b == DigitsThen(s, i + a + 1, sep)
      c == DigitRun(s, i + a + 1 + b + 1, 2, 4)
  IN IF a > 0 /\ b > 0 /\ c > 0 THEN a + 1 + b + 1 + c ELSE 0

Meridiem == << <<"a", "m">>, <<"p", "m">>, <<"A", "M">>, <<"P", "M">> >>

\* \s?(am|pm|AM|PM)
MeridiemLen(s, i) ==
  IF charAt(s, i) \in WhiteSpace /\ WordAlt(Meridiem, s, i + 1, FALSE) > 0
  THEN 3
  ELSE WordAlt(Meridiem, s, i, FALSE)

\* \d{1,2}:\d{2}(\s?(am|pm|AM|PM))?
ClockLen(s, i) ==
  LET a == DigitsThen(s, i, ":")
  IN IF a > 0 /\ DigitsAt(s, i + a + 1, 2)
     THEN a + 3 + MeridiemLen(s, i + a + 3)
     ELSE 0

\* \d{1,2}\s?(<one of words>)
HourThenLen(s, i, SuffixLen(_, _)) ==
  IF DigitsAt(s, i, 2) /\ SuffixLen(s, i + 2) > 0 THEN 2 + SuffixLen(s, i + 2)
  ELSE IF DigitsAt(s, i, 1) /\ SuffixLen(s, i + 1) > 0
       THEN 1 + SuffixLen(s, i + 1)
  ELSE 0

RelativeDay ==
  << <<"t", "o", "m", "o", "r", "r", "o", "w">>,
     <<"t", "o", "d", "a", "y">>,
     <<"מ", "ח", "ר">>,
     <<"ה", "י", "ו", "ם">> >>

EnglishWeekday ==
  << <<"m", "o", "n", "d", "a", "y">>,
     <<"t", "u", "e", "s", "d", "a", "y">>,
     <<"w", "e", "d", "n", "e", "s", "d", "a", "y">>,
     <<"t", "h", "u", "r", "s", "d", "a", "y">>,
     <<"f", "r", "i", "d", "a", "y">>,
     <<"s", "a", "t", "u", "r", "d", "a", "y">>,
     <<"s", "u", "n", "d", "a", "y">> >>

HebrewWeekday ==
  << <<"ר", "א", "ש", "ו", "ן">>,
     <<"ש", "נ", "י">>,
     <<"ש", "ל", "י", "ש", "י">>,
     <<"ר", "ב", "י", "ע", "י">>,
     <<"ח", "מ", "י", "ש", "י">>,
     <<"ש", "י", "ש", "י">>,
     <<"ש", "ב", "ת">> >>

WeekPhrase ==
  << <<"n", "e", "x", "t", " ", "w", "e", "e", "k">>,
     <<"ה", "ש", "ב", "ו", "ע", " ", "ה", "ב", "א">>,
     <<"ה", "ש", "ב", "ו", "ע">> >>

DayPart ==
  << <<"m", "o", "r", "n", "i", "n", "g">>,
     <<"a", "f", "t", "e", "r", "n", "o", "o", "n">>,
     <<"e", "v", "e", "n", "i", "n", "g">>,
     <<"ב", "ו", "ק", "ר">>,
     <<"צ", "ה", "ר", "י", "י", "ם">>,
     <<"א", "ח", "ר", " ", "ה", "צ", "ה", "ר", "י", "י", "ם">>,
     <<"ע", "ר", "ב">> >>

HebrewDayPart ==
  << <<"ב", "ב", "ו", "ק", "ר">>,
     <<"ב", "צ", "ה", "ר", "י", "י", "ם">>,
     <<"ב", "ע", "ר", "ב">>,
     <<"א", "ח", "ה", "\"", "צ">> >>

\* \s?(בבוקר|בצהריים|בערב|אחה"צ), case ignored
HebrewDayPartLen(s, i) ==
  IF charAt(s, i) \in WhiteSpace /\ WordAlt(HebrewDayPart, s, i + 1, TRUE) > 0
  THEN 1 + WordAlt(HebrewDayPart, s, i + 1, TRUE)
  ELSE WordAlt(HebrewDayPart, s, i, TRUE)

\* the class [A-Za-z\u0590-\u05FF\s]
NameClass == UpperCase \cup LowerCase \cup HebrewLetter \cup WhiteSpace

\* <word>\s+([A-Za-z\u0590-\u05FF\s]+), case ignored: the word, then the
\* longest run of the class, which starts with white space and has a
\* character left for the group
PrefixedNameLen(s, i, word) ==
  LET run == ClassRun(s, i + Len(word), NameClass)
  IN IF /\ StartsAtI(s, i, word)
        /\ charAt(s, i + Len(word)) \in WhiteSpace
        /\ run >= 2
     THEN Len(word) + run
     ELSE 0

\* <first>+\s+<first>+ with both words of the form head rest+
\* ([A-Z][a-z]+\s+[A-Z][a-z]+) and ([א-ת]+\s+[א-ת]+, head and rest alike)
WordPairLen(s, i, head, rest, minRest) ==
  LET r1 == ClassRun(s, i + 1, rest)
      w  == ClassRun(s, i + 1 + r1, WhiteSpace)
      j  == i + 1 + r1 + w
      r2 == ClassRun(s, j + 1, rest)
  IN IF /\ charAt(s, i) \in head /\ r1 >= minRest /\ w >= 1
        /\ charAt(s, j) \in head /\ r2 >= minRest
     THEN 1 + r1 + w + 1 + r2
     ELSE 0

\* this.datePatterns, this.timePatterns and this.namePatterns, by name
datePatterns ==
  <<"slash", "dash", "dot", "relative", "weekday", "hebrewWeekday", "week">>

timePatterns == <<"clock", "hourMeridiem", "dayPart", "hebrewHour">>

namePatterns == <<"with", "hebrewWith", "capitalised", "hebrewPair">>

MatchLen(p, s, i) ==
  CASE p = "slash" -> NumericDateLen(s, i, "/")
    [] p = "dash" -> NumericDateLen(s, i, "-")
    [] p = "dot" -> NumericDateLen(s, i, ".")
    [] p = "relative" -> WordAlt(RelativeDay, s, i, TRUE)
    [] p = "weekday" -> WordAlt(EnglishWeekday, s, i, TRUE)
    [] p = "hebrewWeekday" -> WordAlt(HebrewWeekday, s, i, TRUE)
    [] p = "week" -> WordAlt(WeekPhrase, s, i, TRUE)
    [] p = "clock" -> ClockLen(s, i)
    [] p = "hourMeridiem" -> HourThenLen(s, i, MeridiemLen)
    [] p = "dayPart" -> WordAlt(DayPart, s, i, TRUE)
    [] p = "hebrewHour" -> HourThenLen(s, i, HebrewDayPartLen)
    [] p = "with" -> PrefixedNameLen(s, i, <<"w", "i", "t", "h">>)
    [] p = "hebrewWith" -> PrefixedNameLen(s, i, <<"ע", "ם">>)
    [] p = "capitalised" -> WordPairLen(s, i, UpperCase, LowerCase, 1)
    [] p = "hebrewPair" -> WordPairLen(s, i, HebrewLetter, HebrewLetter, 0)
    [] p = "capitalisedTs" ->
         IF charAt(s, i) = "מ"
              /\ WordPairLen(s, i + 1, UpperCase, LowerCase, 1) > 0
         THEN 1 + WordPairLen(s, i + 1, UpperCase, LowerCase, 1)
         ELSE WordPairLen(s, i, UpperCase, LowerCase, 1)

\* String.prototype.match with a global pattern: the matches from left to
\* right, each search resuming where the previous match ended
RECURSIVE MatchFrom(_, _, _)
MatchFrom(p, s, i) ==
  IF i > Len(s) THEN <<>>
  ELSE LET n == MatchLen(p, s, i)
       IN IF n > 0 THEN <<SubSeq(s, i, i + n - 1)>> \o MatchFrom(p, s, i + n)
          ELSE MatchFrom(p, s, i + 1)

match(s, p) == MatchFrom(p, s, 1)

\* for (const pattern of patterns) list.push(...text.match(pattern))
RECURSIVE MatchEach(_, _)
MatchEach(patterns, s) ==
  IF patterns = <<>> THEN <<>>
  ELSE match(s, Head(patterns)) \o MatchEach(Tail(patterns), s)

----------------------------------------------------------------------------
(* Dates.  new Date(year, monthIndex, day) in local time, as a day number: *)
(* the days since 1970-01-01 plus 4, so that day % 7 is Date.getDay()      *)

DaysFromCivil(y, m, d) ==
  LET yy  == IF m <= 2 THEN y - 1 ELSE y
      era == yy \div 400
      yoe == yy - era * 400
      mp  == IF m > 2 THEN m - 3 ELSE m + 9
      doy == (153 * mp + 2) \div 5 + d - 1
      doe == yoe * 365 + yoe \div 4 - yoe \div 100 + doy
  IN era * 146097 + doe - 719468

\* a month index outside 0..11 and a day outside the month carry over
NewDate(year, monthIndex, day) ==
  DaysFromCivil(year + (monthIndex \div 12), (monthIndex % 12) + 1, 1)
    + (day - 1) + 4

getDay(date) == date % 7

DigitValue(c) ==
  CASE c = "0" -> 0 [] c = "1" -> 1 [] c = "2" -> 2 [] c = "3" -> 3
    [] c = "4" -> 4 [] c = "5" -> 5 [] c = "6" -> 6 [] c = "7" -> 7
    [] c = "8" -> 8 [] c = "9" -> 9

\* parseInt of a string of digits
RECURSIVE parseInt(_)
parseInt(s) ==
  IF s = <<>> THEN 0
  ELSE 10 * parseInt(SubSeq(s, 1, Len(s) - 1)) + DigitValue(s[Len(s)])

\* String.prototype.split(/[\/\-\.]/)
RECURSIVE split(_)
split(s) ==
  LET cut == {i \in 1..Len(s) : s[i] \in {"/", "-", "."}}
  IN IF cut = {} THEN <<s>>
     ELSE <<SubSeq(s, 1, Min(cut) - 1)>>
            \o split(SubSeq(s, Min(cut) + 1, Len(s)))

\* RegExp.prototype.test of an alternation of two words, case ignored
TestEither(s, w1, w2) ==
  includes(toLowerCase(s), toLowerCase(w1))
    \/ includes(toLowerCase(s), toLowerCase(w2))

\* /\d{1,2}[\/\-\.]\d{1,2}[\/\-\.]\d{2,4}/.test
TestNumericDate(s) ==
  \E i \in 1..Len(s) : \E sep1, sep2 \in {"/", "-", "."} :
    LET a == DigitsThen(s, i, sep1)
        b == DigitsThen(s, i + a + 1, sep2)
    IN a > 0 /\ b > 0 /\ DigitRun(s, i + a + 1 + b + 1, 2, 4) > 0

\* getNextWeekday that takes the day of the run for the next occurrence
getNextWeekday_SameDay(targetDay, now) ==
  LET currentDay == getDay(now)
      daysUntilTarget == targetDay - currentDay
  IN IF daysUntilTarget < 0 THEN now + daysUntilTarget + 7
     ELSE now + daysUntilTarget

getNextWeekday(targetDay, now) ==
  LET currentDay == getDay(now)
      daysUntilTarget == targetDay - currentDay
  IN IF daysUntilTarget <= 0 THEN now + daysUntilTarget + 7
     ELSE now + daysUntilTarget

\* the numeric branch reading the month before the day
DateOfParts_MonthFirst(parts) ==
  IF Len(parts) >= 3
  THEN LET day   == parseInt(parts[2])
           month == parseInt(parts[1]) - 1
           year  == parseInt(parts[3])
       IN <<NewDate(IF year < 100 THEN 2000 + year ELSE year, month, day)>>
  ELSE <<>>

\* the date of the parts of a numeric token: day, month, year
DateOfParts(parts) ==
  IF Len(parts) >= 3
  THEN LET day   == parseInt(parts[1])
           month == parseInt(parts[2]) - 1
           year  == parseInt(parts[3])
       IN <<NewDate(IF year < 100 THEN 2000 + year ELSE year, month, day)>>
  ELSE <<>>

\* ParseDate knowing the relative days only, and those exchanged
ParseDate_RelativeDaysExchanged(dateStr, now) ==
  IF TestEither(dateStr, RelativeDay[1], RelativeDay[3]) THEN <<now>>
  ELSE IF TestEither(dateStr, RelativeDay[2], RelativeDay[4]) THEN <<now + 1>>
  ELSE <<>>

\* the day one extracted token resolves to: <<day>>, or <<>> when no rule
\* of parseDates takes the token
ParseDate(dateStr, now) ==
  IF TestEither(dateStr, RelativeDay[1], RelativeDay[3]) THEN <<now + 1>>
  ELSE IF TestEither(dateStr, RelativeDay[2], RelativeDay[4]) THEN <<now>>
  ELSE IF TestEither(dateStr, EnglishWeekday[1], HebrewWeekday[1])
       THEN <<getNextWeekday(1, now)>>
  ELSE IF TestEither(dateStr, EnglishWeekday[2], HebrewWeekday[2])
       THEN <<getNextWeekday(2, now)>>
  ELSE IF TestEither(dateStr, EnglishWeekday[3], HebrewWeekday[3])
       THEN <<getNextWeekday(3, now)>>
  ELSE IF TestEither(dateStr, EnglishWeekday[4], HebrewWeekday[4])
       THEN <<getNextWeekday(4, now)>>
  ELSE IF TestEither(dateStr, EnglishWeekday[5], HebrewWeekday[5])
       THEN <<getNextWeekday(5, now)>>
  ELSE IF TestEither(dateStr, EnglishWeekday[6], HebrewWeekday[6])
       THEN <<getNextWeekday(6, now)>>
  ELSE IF TestEither(dateStr, EnglishWeekday[7], HebrewWeekday[7])
       THEN <<getNextWeekday(0, now)>>
  ELSE IF TestNumericDate(dateStr) THEN DateOfParts(split(dateStr))
  ELSE <<>>

RECURSIVE parseDates(_, _)
parseDates(dateStrings, now) ==
  IF dateStrings = <<>> THEN <<>>
  ELSE ParseDate(Head(dateStrings), now) \o parseDates(Tail(dateStrings), now)

----------------------------------------------------------------------------
(* KeywordDetector: extraction and scoring *)

extractDates(text) == Unique(MatchEach(datePatterns, text))

extractTimes(text) == Unique(MatchEach(timePatterns, text))

\* match.replace(/^(with|עם)\s+/i, '').trim()
cleanName(m) ==
  LET word == IF StartsAtI(m, 1, <<"w", "i", "t", "h">>) THEN 4
              ELSE IF StartsAtI(m, 1, <<"ע", "ם">>) THEN 2
              ELSE 0
      ws   == ClassRun(m, word + 1, WhiteSpace)
  IN IF word > 0 /\ ws > 0 THEN trim(SubSeq(m, word + ws + 1, Len(m)))
     ELSE trim(m)

RECURSIVE CleanNames(_)
CleanNames(matches) ==
  IF matches = <<>> THEN <<>>
  ELSE (IF Len(cleanName(Head(matches))) > 2
        THEN <<cleanName(Head(matches))>> ELSE <<>>)
         \o CleanNames(Tail(matches))

extractNames(text) == Unique(CleanNames(MatchEach(namePatterns, text)))

Least(a, b) == IF a <= b THEN a ELSE b

Greatest(a, b) == IF a >= b THEN a ELSE b

\* in thousandths
\* calculateConfidence without the last Math.min
calculateConfidence_Uncapped(keywordMatches, dateMatches, timeMatches, nameMatches) ==
  Least(keywordMatches * 300, 600) + Least(dateMatches * 250, 400)
    + Least(timeMatches * 200, 300) + Least(nameMatches * 100, 200)

calculateConfidence(keywordMatches, dateMatches, timeMatches, nameMatches) ==
  Least(Least(keywordMatches * 300, 600)
          + Least(dateMatches * 250, 400)
          + Least(timeMatches * 200, 300)
          + Least(nameMatches * 100, 200),
        1000)

\* calculateConfidence of the TypeScript detector (utils/keywordDetector.ts)
calculateConfidenceTs(keywordMatches, dateMatches, timeMatches, nameMatches) ==
  Least(Least(keywordMatches * 300, 600)
          + Least(dateMatches * 200, 400)
          + Least(timeMatches * 150, 300)
          + Least(nameMatches * 100, 200),
        1000)

\* the confidences of the two detectors for the same numbers of matches
Confidences(matches) ==
  [js |-> calculateConfidence(matches.keywordMatches, matches.dateMatches,
                              matches.timeMatches, matches.nameMatches),
   ts |-> calculateConfidenceTs(matches.keywordMatches, matches.dateMatches,
                                matches.timeMatches, matches.nameMatches)]

\* calculateConfidence has not been called
NoCounts ==
  [keywordMatches |-> 0, dateMatches |-> 0, timeMatches |-> 0,
   nameMatches |-> 0]

NoConfidences == [js |-> 0, ts |-> 0]

\* keywords.filter(keyword => text.includes(keyword.toLowerCase())).length
KeywordMatches(keywords, text) ==
  Cardinality({k \in 1..Len(keywords) :
                 includes(text, toLowerCase(keywords[k]))})

\* the part of analyzeMessage that depends on the text alone: the number of
\* keywords found in the lower-cased text and the tokens extracted from the
\* original one
Signals(originalText) ==
  LET text == toLowerCase(originalText)
  IN [blank         |-> trim(text) = <<>>,
      totalMatches  |-> KeywordMatches(hebrewKeywords, text)
                          + KeywordMatches(englishKeywords, text),
      detectedDates |-> extractDates(originalText),
      detectedTimes |-> extractTimes(originalText),
      detectedNames |-> extractNames(originalText)]

\* the texts of the messages of the model
Texts ==
  << <<"L", "e", "t", "'", "s", " ", "m", "e", "e", "t", " ", "t", "o", "m",
       "o", "r", "r", "o", "w", " ", "a", "t", " ", "3">>,
     <<"M", "e", "e", "t", "i", "n", "g", " ", "t", "o", "m", "o", "r", "r",
       "o", "w", " ", "a", "t", " ", "3", " ", "P", "M", " ", "w", "i", "t",
       "h", " ", "S", "a", "r", "a", "h">>,
     <<"c", "a", "l", "l", " ", "t", "o", "d", "a", "y", " ", "1", "5", ":",
       "0", "0">>,
     <<"s", "e", "e", " ", "y", "o", "u", " ", "t", "o", "m", "o", "r", "r",
       "o", "w", " ", "m", "o", "r", "n", "i", "n", "g">>,
     <<"f", "r", "i", "d", "a", "y">>,
     <<"o", "k", " ", "D", "a", "n", "a", " ", "L", "e", "v", "i">>,
     <<"h", "e", "l", "l", "o">> >>

\* texts of candidates that the fallback verdict turns down: a time with a
\* confidence of 0.5, and a confidence of 0.7 without date or time
WeakTexts ==
  << <<"c", "a", "l", "l", " ", "1", "5", ":", "0", "0">>,
     <<"c", "a", "l", "l", " ", "m", "e", "e", "t", " ", "D", "a", "n",
       "a", " ", "L", "e", "v", "i">> >>

\* Signals of every text of the model
SignalsOf ==
  [text \in {Texts[i] : i \in 1..Len(Texts)}
             \cup {WeakTexts[i] : i \in 1..Len(WeakTexts)} |-> Signals(text)]

\* an absent extractedDateTime / llmDateTime
NoDateTime ==
  [given |-> FALSE, parses |-> FALSE, colon |-> FALSE,
   day |-> 0, hours |-> 0, minutes |-> 0]

DateTime(parses, colon, day, hours, minutes) ==
  [given |-> TRUE, parses |-> parses, colon |-> colon, day |-> day,
   hours |-> hours, minutes |-> minutes]

\* detection.llmAnalysis before the analyzer has set it
NoAnalysis ==
  [present |-> FALSE, isValidMeeting |-> FALSE, confidence |-> 0,
   extractedDateTime |-> NoDateTime, reasoning |-> ""]

\* the confidence analyzeMessage gives a text with these signals
Confidence(signals) ==
  calculateConfidence(signals.totalMatches, Len(signals.detectedDates),
                      Len(signals.detectedTimes), Len(signals.detectedNames))

\* analyzeMessage without the return for a text that has no keyword
Detection_OfAnyText(message, now, signals, confidence) ==
  IF signals.blank THEN <<>>
  ELSE IF confidence < 100 THEN <<>>
  ELSE << [ messageId     |-> message.id,
            chatId        |-> message.chatId,
            keywordCount  |-> signals.totalMatches,
            detectedDate  |-> IF signals.detectedDates = <<>> THEN <<>>
                              ELSE signals.detectedDates[1],
            detectedTime  |-> IF signals.detectedTimes = <<>> THEN <<>>
                              ELSE signals.detectedTimes[1],
            nameCount     |-> Len(signals.detectedNames),
            parsedDates   |-> parseDates(signals.detectedDates, now),
            confidence    |-> confidence,
            timestamp     |-> message.timestamp,
            llmAnalysis   |-> NoAnalysis,
            llmDateTime   |-> NoDateTime ] >>

\* what analyzeMessage returns for a message whose text has these signals
\* and this confidence: <<>> for null, else <<detection>>.  extractedText
\* is the text of the message with the detection's messageId.  An undefined
\* detectedDate or detectedTime is the empty string; the properties
\* llmAnalysis and llmDateTime, which the runner adds later, start as
\* records that are not present and not given.
Detection(message, now, signals, confidence) ==
  IF signals.blank THEN <<>>
  ELSE IF signals.totalMatches = 0 THEN <<>>
  ELSE IF confidence < 100 THEN <<>>
  ELSE << [ messageId     |-> message.id,
            chatId        |-> message.chatId,
            keywordCount  |-> signals.totalMatches,
            detectedDate  |-> IF signals.detectedDates = <<>> THEN <<>>
                              ELSE signals.detectedDates[1],
            detectedTime  |-> IF signals.detectedTimes = <<>> THEN <<>>
                              ELSE signals.detectedTimes[1],
            nameCount     |-> Len(signals.detectedNames),
            parsedDates   |-> parseDates(signals.detectedDates, now),
            confidence    |-> confidence,
            timestamp     |-> message.timestamp,
            llmAnalysis   |-> NoAnalysis,
            llmDateTime   |-> NoDateTime ] >>

AnalyzeSignals(message, now, signals) ==
  Detection(message, now, signals, Confidence(signals))

analyzeMessage(message, now) ==
  AnalyzeSignals(message, now, SignalsOf[message.text])

\* analyzeMessage has not been called
NoMessage == [id |-> 0, chatId |-> "", text |-> <<>>, timestamp |-> 0]

NoCandidates == [js |-> <<>>, ts |-> <<>>]

detectMeetings(messages, now) ==
  LET RECURSIVE Detect(_)
      Detect(k) ==
        IF k > Len(messages) THEN <<>>
        ELSE analyzeMessage(messages[k], now) \o Detect(k + 1)
  IN Detect(1)

----------------------------------------------------------------------------
(* KeywordDetector of utils/keywordDetector.ts.  Its keywords are those of *)
(* config.keywords, which are keywords of keyword-detector.js in the same  *)
(* order: the Hebrew ones but for the 28th to 30th and those after the     *)
(* 35th, the English ones but for the 5th and those after the 27th.  Its   *)
(* patterns are those of keyword-detector.js but for the last date and     *)
(* time pattern, and its pattern of capitalised names takes a mem before   *)
(* the name.                                                               *)

hebrewKeywordsTs ==
  SubSeq(hebrewKeywords, 1, 27) \o SubSeq(hebrewKeywords, 31, 35)

englishKeywordsTs ==
  SubSeq(englishKeywords, 1, 4) \o SubSeq(englishKeywords, 6, 27)

datePatternsTs == SubSeq(datePatterns, 1, 6)

timePatternsTs == SubSeq(timePatterns, 1, 3)

namePatternsTs == <<"with", "hebrewWith", "capitalisedTs", "hebrewPair">>

SignalsTs(originalText) ==
  LET text == toLowerCase(originalText)
  IN [blank         |-> trim(text) = <<>>,
      totalMatches  |-> KeywordMatches(hebrewKeywordsTs, text)
                          + KeywordMatches(englishKeywordsTs, text),
      detectedDates |-> Unique(MatchEach(datePatternsTs, originalText)),
      detectedTimes |-> Unique(MatchEach(timePatternsTs, originalText)),
      detectedNames |->
        Unique(CleanNames(MatchEach(namePatternsTs, originalText)))]

ConfidenceTs(signals) ==
  calculateConfidenceTs(signals.totalMatches, Len(signals.detectedDates),
                        Len(signals.detectedTimes),
                        Len(signals.detectedNames))

\* analyzeMessage discarding a confidence of 0.3 as well
DetectionTs_HigherMinimum(message, signals, confidence) ==
  IF signals.totalMatches = 0 THEN <<>>
  ELSE IF confidence <= 300 THEN <<>>
  ELSE << [ messageId     |-> message.id,
            chatId        |-> message.chatId,
            keywordCount  |-> signals.totalMatches,
            detectedDate  |-> IF signals.detectedDates = <<>> THEN <<>>
                              ELSE signals.detectedDates[1],
            detectedTime  |-> IF signals.detectedTimes = <<>> THEN <<>>
                              ELSE signals.detectedTimes[1],
            nameCount     |-> Len(signals.detectedNames),
            confidence    |-> confidence,
            timestamp     |-> message.timestamp ] >>

\* what analyzeMessage returns: <<>> for null, else <<detection>>
DetectionTs(message, signals, confidence) ==
  IF signals.totalMatches = 0 THEN <<>>
  ELSE IF confidence < 300 THEN <<>>
  ELSE << [ messageId     |-> message.id,
            chatId        |-> message.chatId,
            keywordCount  |-> signals.totalMatches,
            detectedDate  |-> IF signals.detectedDates = <<>> THEN <<>>
                              ELSE signals.detectedDates[1],
            detectedTime  |-> IF signals.detectedTimes = <<>> THEN <<>>
                              ELSE signals.detectedTimes[1],
            nameCount     |-> Len(signals.detectedNames),
            confidence    |-> confidence,
            timestamp     |-> message.timestamp ] >>

AnalyzeSignalsTs(message, signals) ==
  DetectionTs(message, signals, ConfidenceTs(signals))

analyzeMessageTs(message) == AnalyzeSignalsTs(message, SignalsTs(message.text))

----------------------------------------------------------------------------
(* JSON.parse.  A value is a record [type, bool, num, str, items]: items   *)
(* are the elements of an array, and the members [key, value] of an        *)
(* object in the order of the text.  Numbers are integers, strings have    *)
(* no escapes; a text with a fraction, an exponent or a backslash is       *)
(* outside the texts of this model.                                        *)

JsonValue(type, bool, num, str, items) ==
  [type |-> type, bool |-> bool, num |-> num, str |-> str, items |-> items]

Undefined == JsonValue("undefined", FALSE, 0, <<>>, <<>>)

Null == JsonValue("null", FALSE, 0, <<>>, <<>>)

\* the outcome of parsing at one position: the value and the position after it
SyntaxError == [ok |-> FALSE, value |-> Undefined, next |-> 0]
Parsed(value, next) == [ok |-> TRUE, value |-> value, next |-> next]

\* the position of the first character at or after i that is not white space
SkipWhiteSpace(s, i) == i + ClassRun(s, i, WhiteSpace)

\* a string, s[i] being its opening quote
ParseString(s, i) ==
  LET quotes == {j \in (i + 1)..Len(s) : s[j] = "\""}
  IN IF quotes = {} THEN SyntaxError
     ELSE Parsed(JsonValue("string", FALSE, 0,
                      SubSeq(s, i + 1, Min(quotes) - 1), <<>>),
             Min(quotes) + 1)

\* a number: -? (0 | [1-9][0-9]*)
ParseNumber(s, i) ==
  LET start == IF charAt(s, i) = "-" THEN i + 1 ELSE i
      n == IF charAt(s, start) = "0" THEN 1 ELSE ClassRun(s, start, Digit)
      value == parseInt(SubSeq(s, start, start + n - 1))
  IN IF n = 0 THEN SyntaxError
     ELSE Parsed(JsonValue("number", FALSE,
                           IF start = i THEN value ELSE 0 - value,
                           <<>>, <<>>),
                 start + n)

RECURSIVE ParseValue(_, _)
RECURSIVE ParseMembers(_, _, _)
RECURSIVE ParseElements(_, _, _)

\* the members of an object from the key at i on
ParseMembers(s, i, members) ==
  LET key == IF charAt(s, i) = "\"" THEN ParseString(s, i) ELSE SyntaxError
      colon == SkipWhiteSpace(s, key.next)
      value == IF key.ok /\ charAt(s, colon) = ":"
               THEN ParseValue(s, SkipWhiteSpace(s, colon + 1))
               ELSE SyntaxError
      after == SkipWhiteSpace(s, value.next)
      all == Append(members, [key |-> key.value.str, value |-> value.value])
  IN IF ~value.ok THEN SyntaxError
     ELSE IF charAt(s, after) = ","
     THEN ParseMembers(s, SkipWhiteSpace(s, after + 1), all)
     ELSE IF charAt(s, after) = "}"
     THEN Parsed(JsonValue("object", FALSE, 0, <<>>, all), after + 1)
     ELSE SyntaxError

\* the elements of an array from the element at i on
ParseElements(s, i, elements) ==
  LET value == ParseValue(s, i)
      after == SkipWhiteSpace(s, value.next)
      all == Append(elements, value.value)
  IN IF ~value.ok THEN SyntaxError
     ELSE IF charAt(s, after) = ","
     THEN ParseElements(s, SkipWhiteSpace(s, after + 1), all)
     ELSE IF charAt(s, after) = "]"
     THEN Parsed(JsonValue("array", FALSE, 0, <<>>, all), after + 1)
     ELSE SyntaxError

ParseValue(s, i) ==
  CASE charAt(s, i) = "{" ->
         IF charAt(s, SkipWhiteSpace(s, i + 1)) = "}"
         THEN Parsed(JsonValue("object", FALSE, 0, <<>>, <<>>),
                     SkipWhiteSpace(s, i + 1) + 1)
         ELSE ParseMembers(s, SkipWhiteSpace(s, i + 1), <<>>)
    [] charAt(s, i) = "[" ->
         IF charAt(s, SkipWhiteSpace(s, i + 1)) = "]"
         THEN Parsed(JsonValue("array", FALSE, 0, <<>>, <<>>),
                     SkipWhiteSpace(s, i + 1) + 1)
         ELSE ParseElements(s, SkipWhiteSpace(s, i + 1), <<>>)
    [] charAt(s, i) = "\"" -> ParseString(s, i)
    [] charAt(s, i) \in Digit \cup {"-"} -> ParseNumber(s, i)
    [] StartsAt(s, i, <<"t", "r", "u", "e">>) ->
         Parsed(JsonValue("boolean", TRUE, 0, <<>>, <<>>), i + 4)
    [] StartsAt(s, i, <<"f", "a", "l", "s", "e">>) ->
         Parsed(JsonValue("boolean", FALSE, 0, <<>>, <<>>), i + 5)
    [] StartsAt(s, i, <<"n", "u", "l", "l">>) -> Parsed(Null, i + 4)
    [] OTHER -> SyntaxError

\* JSON.parse(text): ok is FALSE where it throws a SyntaxError
JSONparse(text) ==
  LET value == ParseValue(text, SkipWhiteSpace(text, 1))
  IN IF value.ok /\ SkipWhiteSpace(text, value.next) = Len(text) + 1
     THEN value ELSE SyntaxError

\* parsed[name] of a value that is not null: the last member of that name
Get(parsed, name) ==
  LET hits == {k \in 1..Len(parsed.items) : parsed.items[k].key = name}
  IN IF parsed.type # "object" \/ hits = {} THEN Undefined
     ELSE parsed.items[Max(hits)].value

----------------------------------------------------------------------------
(* LLMAnalyzer.  A verdict is a record; extractedDateTime is the string    *)
(* of the verdict as new Date() and String.includes see it: whether it is  *)
(* a non-empty string (given), whether new Date(string) is a valid date    *)
(* (parses) and then its local day, hours and minutes, and whether the     *)
(* string has a colon.                                                     *)

\* Math.round of a number of thousandths, as a number of hundredths
RoundPercent(thousandths) == (thousandths + 5) \div 10

\* getFallbackResult asking for a date and a time
getFallbackResult_DateAndTime(detectedMeeting) ==
  LET hasDateTime == /\ detectedMeeting.detectedDate # <<>>
                     /\ detectedMeeting.detectedTime # <<>>
      confidence == RoundPercent(detectedMeeting.confidence)
  IN [present |-> TRUE,
      isValidMeeting |-> hasDateTime /\ confidence > 30,
      confidence |-> confidence,
      extractedDateTime |-> NoDateTime,
      reasoning |-> "Claude analysis unavailable, using fallback keyword detection"]

getFallbackResult(detectedMeeting) ==
  LET hasDateTime == \/ detectedMeeting.detectedDate # <<>>
                     \/ detectedMeeting.detectedTime # <<>>
      confidence == RoundPercent(detectedMeeting.confidence)
  IN [present |-> TRUE,
      isValidMeeting |-> hasDateTime /\ confidence > 30,
      confidence |-> confidence,
      extractedDateTime |-> NoDateTime,
      reasoning |-> "Claude analysis unavailable, using fallback keyword detection"]

\* ToBoolean
Truthy(v) ==
  CASE v.type \in {"undefined", "null"} -> FALSE
    [] v.type = "boolean" -> v.bool
    [] v.type = "number" -> v.num # 0
    [] v.type = "string" -> v.str # <<>>
    [] OTHER -> TRUE

\* the number NaN: no percentage is negative after Math.max(0, ...), so -1
\* is free to stand for it; NaN > x is false as in the code
NaN == -1

\* ToNumber of a string: white space is trimmed, "" is 0, a signed run of
\* digits is its value, any other text is NaN
StringToNumber(s) ==
  LET signed == trim(s) # <<>> /\ trim(s)[1] \in {"+", "-"}
      digits == IF signed THEN Tail(trim(s)) ELSE trim(s)
  IN IF trim(s) = <<>> THEN [nan |-> FALSE, num |-> 0]
     ELSE IF digits = <<>> \/ ClassRun(digits, 1, Digit) # Len(digits)
     THEN [nan |-> TRUE, num |-> 0]
     ELSE [nan |-> FALSE,
           num |-> IF trim(s)[1] = "-" THEN 0 - parseInt(digits)
                   ELSE parseInt(digits)]

\* ToNumber; an array is converted by way of its string, which is "" for
\* the empty array and the element's string for an array of one element
RECURSIVE ToNumber(_)
ToNumber(v) ==
  CASE v.type = "number" -> [nan |-> FALSE, num |-> v.num]
    [] v.type = "boolean" -> [nan |-> FALSE, num |-> IF v.bool THEN 1 ELSE 0]
    [] v.type = "null" -> [nan |-> FALSE, num |-> 0]
    [] v.type = "string" -> StringToNumber(v.str)
    [] v.type = "array" /\ v.items = <<>> -> [nan |-> FALSE, num |-> 0]
    [] v.type = "array" /\ Len(v.items) = 1
         /\ v.items[1].type \in {"number", "string", "null", "array"} ->
         ToNumber(v.items[1])
    [] OTHER -> [nan |-> TRUE, num |-> 0]

\* Math.max(0, Math.min(100, value || 0))
ClampConfidence(value) ==
  IF ~Truthy(value) THEN 0
  ELSE IF ToNumber(value).nan THEN NaN
  ELSE Greatest(0, Least(100, ToNumber(value).num))

\* the days of a month of the calendar
DaysInMonth(year, month) ==
  NewDate(year, month, 1) - NewDate(year, month - 1, 1)

\* new Date(string) of the forms YYYY-MM-DD and YYYY-MM-DDTHH:MM, the time
\* after a T or a space and with or without :SS and Z, in a run whose
\* time zone is UTC; any other string is an Invalid Date
ParseIsoDate(s) ==
  LET year == parseInt(SubSeq(s, 1, 4))
      month == parseInt(SubSeq(s, 6, 7))
      day == parseInt(SubSeq(s, 9, 10))
      hours == parseInt(SubSeq(s, 12, 13))
      minutes == parseInt(SubSeq(s, 15, 16))
      isDate == /\ Len(s) >= 10
                /\ DigitsAt(s, 1, 4) /\ s[5] = "-"
                /\ DigitsAt(s, 6, 2) /\ s[8] = "-"
                /\ DigitsAt(s, 9, 2)
                /\ month \in 1..12
                /\ day \in 1..DaysInMonth(year, month)
      seconds == IF StartsAt(s, 17, <<":">>) /\ DigitsAt(s, 18, 2)
                 THEN 3 ELSE 0
      zone == IF charAt(s, 17 + seconds) = "Z" THEN 1 ELSE 0
      isTime == /\ s[11] \in {"T", " "}
                /\ DigitsAt(s, 12, 2) /\ charAt(s, 14) = ":"
                /\ DigitsAt(s, 15, 2)
                /\ hours \in 0..23 /\ minutes \in 0..59
                /\ Len(s) = 16 + seconds + zone
  IN IF isDate /\ Len(s) = 10
     THEN [valid |-> TRUE, day |-> NewDate(year, month - 1, day),
           hours |-> 0, minutes |-> 0]
     ELSE IF isDate /\ isTime
     THEN [valid |-> TRUE, day |-> NewDate(year, month - 1, day),
           hours |-> hours, minutes |-> minutes]
     ELSE [valid |-> FALSE, day |-> 0, hours |-> 0, minutes |-> 0]

\* parsed.extractedDateTime || undefined, as the runners read it; a value
\* that is neither a string nor falsy is outside the texts of this model
ExtractedDateTime(value) ==
  IF value.type # "string" \/ value.str = <<>> THEN NoDateTime
  ELSE DateTime(ParseIsoDate(value.str).valid, includes(value.str, <<":">>),
                ParseIsoDate(value.str).day, ParseIsoDate(value.str).hours,
                ParseIsoDate(value.str).minutes)

\* the character U+0060, which a string of this notation cannot hold
Backtick == "U+0060"

\* the mark of a code fence
Fence == <<Backtick, Backtick, Backtick>>

\* String.prototype.replace(/word\s*/g, ''): every occurrence of the word
\* goes, with the white space after it
RECURSIVE RemoveAll(_, _)
RemoveAll(s, word) ==
  LET hits == {i \in 1..Len(s) : StartsAt(s, i, word)}
      after == Min(hits) + Len(word)
  IN IF hits = {} THEN s
     ELSE SubSeq(s, 1, Min(hits) - 1)
            \o RemoveAll(SubSeq(s, after + ClassRun(s, after, WhiteSpace),
                                Len(s)), word)

\* String.prototype.replace(/^\s*json\s*/g, '')
RemoveLeadingJson(s) ==
  LET word == 1 + ClassRun(s, 1, WhiteSpace)
  IN IF StartsAt(s, word, <<"j", "s", "o", "n">>)
     THEN SubSeq(s, word + 4 + ClassRun(s, word + 4, WhiteSpace), Len(s))
     ELSE s

\* response.match(/\{[\s\S]*\}/): from the first "{" to the last "}" of the
\* response; <<>> when no "}" follows a "{"
MatchBraces(response) ==
  LET open == {i \in 1..Len(response) : response[i] = "{"}
      close == {i \in 1..Len(response) : response[i] = "}"}
  IN IF open = {} \/ close = {} \/ Max(close) < Min(open) THEN <<>>
     ELSE SubSeq(response, Min(open), Max(close))

\* parseAnalysisResponse handing the whole response to JSON.parse
JsonStr_Trimmed(response) == trim(response)

\* the text parseAnalysisResponse hands to JSON.parse
JsonStr(response) ==
  trim(RemoveLeadingJson(
         RemoveAll(RemoveAll(IF MatchBraces(response) # <<>>
                             THEN MatchBraces(response) ELSE trim(response),
                             Fence \o <<"j", "s", "o", "n">>),
                   Fence)))

\* the members parseAnalysisResponse reads
IsValidMeetingKey ==
  <<"i", "s", "V", "a", "l", "i", "d", "M", "e", "e", "t", "i", "n", "g">>

ConfidenceKey == <<"c", "o", "n", "f", "i", "d", "e", "n", "c", "e">>

ExtractedDateTimeKey ==
  <<"e", "x", "t", "r", "a", "c", "t", "e", "d", "D", "a", "t", "e", "T",
    "i", "m", "e">>

ReasoningKey == <<"r", "e", "a", "s", "o", "n", "i", "n", "g">>

\* the verdict made of the parsed object; reasoning is a text that is only
\* logged, so the verdict says which of the texts it is
Verdict(parsed) ==
  [present |-> TRUE,
   isValidMeeting |-> Truthy(Get(parsed, IsValidMeetingKey)),
   confidence |-> ClampConfidence(Get(parsed, ConfidenceKey)),
   extractedDateTime |-> ExtractedDateTime(Get(parsed, ExtractedDateTimeKey)),
   reasoning |-> IF Truthy(Get(parsed, ReasoningKey))
                 THEN "the reasoning of the response"
                 ELSE "No reasoning provided"]

\* a catch block that answers with an undecided verdict
ParseFailure_Undecided ==
  [present |-> TRUE, isValidMeeting |-> FALSE, confidence |-> 50,
   extractedDateTime |-> NoDateTime,
   reasoning |-> "Failed to parse Claude response"]

\* the verdict of the catch block
ParseFailure ==
  [present |-> TRUE, isValidMeeting |-> FALSE, confidence |-> 0,
   extractedDateTime |-> NoDateTime,
   reasoning |-> "Failed to parse Claude response"]

\* JSON.parse throws a SyntaxError, and reading a property of null a TypeError
ParseOutcome(parsed) ==
  IF ~parsed.ok \/ parsed.value.type = "null" THEN ParseFailure
  ELSE Verdict(parsed.value)

parseAnalysisResponse(response) == ParseOutcome(JSONparse(JsonStr(response)))

----------------------------------------------------------------------------
(* LLMAnalyzer: the call of the oracle *)

\* the text of a JSON string
Quoted(s) == <<"\"">> \o s \o <<"\"">>

\* "name": value; no member for the value <<>>
Member(name, value) ==
  IF value = <<>> THEN <<>> ELSE Quoted(name) \o <<":", " ">> \o value

RECURSIVE Joined(_)
Joined(members) ==
  IF members = <<>> THEN <<>>
  ELSE IF Len(members) = 1 THEN members[1]
  ELSE members[1] \o <<",", " ">> \o Joined(Tail(members))

\* the object the prompt asks for, of the members that have a value
ObjectText(isValidMeeting, confidence, extractedDateTime) ==
  <<"{">>
    \o Joined(SelectSeq(
                << Member(IsValidMeetingKey, isValidMeeting),
                   Member(ConfidenceKey, confidence),
                   Member(ExtractedDateTimeKey, extractedDateTime) >>,
                LAMBDA member : member # <<>>))
    \o <<"}">>

TrueText == <<"t", "r", "u", "e">>

FalseText == <<"f", "a", "l", "s", "e">>

\* 15:00 on the Tuesday, the Wednesday, and no date at all
TuesdayAt15 ==
  Quoted(<<"2", "0", "2", "4", "-", "1", "2", "-", "1", "7", "T", "1", "5",
           ":", "0", "0">>)

Wednesday == Quoted(<<"2", "0", "2", "4", "-", "1", "2", "-", "1", "8">>)

Soon == Quoted(<<"s", "o", "o", "n">>)

Reply(kind, text) == [kind |-> kind, text |-> text]

\* no call was made
NoReply == Reply("none", <<>>)

\* what one call of the oracle can come to
OracleReplies ==
  { Reply("error", <<>>),
    Reply("empty", <<>>),
    Reply("text", <<"I", " ", "c", "a", "n", "n", "o", "t", " ", "t", "e",
                    "l", "l">>),
    Reply("text", ObjectText(TrueText, <<"6", "0">>, Soon)),
    Reply("text", ObjectText(FalseText, <<"9", "5">>, <<>>)),
    Reply("text", ObjectText(TrueText, <<"9", "0">>, TuesdayAt15)),
    Reply("text", ObjectText(TrueText, <<"1", "5", "0">>, Wednesday)) }

\* parseAnalysisResponse of the texts the oracle replies with in a run
VerdictOf ==
  [text \in {reply.text : reply \in OracleReplies} |->
     parseAnalysisResponse(text)]

\* analyzeConversation without the test "if (!analysis)": an empty response
\* is handed to parseAnalysisResponse
analyzeConversation_EmptyIsParsed(enabled, detectedMeeting, reply) ==
  IF ~enabled THEN getFallbackResult(detectedMeeting)
  ELSE IF reply.kind = "error" THEN getFallbackResult(detectedMeeting)
  ELSE parseAnalysisResponse(reply.text)

\* what this.anthropic.messages.create does in one call: it rejects
\* ("error": network failure, timeout, API error), resolves without text
\* ("empty"), or resolves with a text ("text")
analyzeConversation(enabled, detectedMeeting, reply) ==
  IF ~enabled THEN getFallbackResult(detectedMeeting)
  ELSE IF reply.kind = "error" THEN getFallbackResult(detectedMeeting)
  ELSE IF reply.kind = "empty" THEN getFallbackResult(detectedMeeting)
  ELSE VerdictOf[reply.text]

----------------------------------------------------------------------------
(* The conversation context of a detection.  A message is [id, chatId,     *)
(* senderId, senderName, timestamp]; every message getRecentMessages       *)
(* returns has its chatId and its timestamp, so that msg.timestamp ||      *)
(* Date.now() / 1000 is msg.timestamp.                                     *)

\* 2 * 60 * 60, in seconds
contextWindow == 7200

\* conversationHistory.slice(-8)
shownMessages == 8

Abs(n) == IF n < 0 THEN 0 - n ELSE n

\* Array.prototype.sort((a, b) => a.timestamp - b.timestamp), which keeps
\* the order of messages of the same timestamp
RECURSIVE SortByTimestamp(_)
SortByTimestamp(list) ==
  IF list = <<>> THEN <<>>
  ELSE LET sorted == SortByTimestamp(Tail(list))
           before == SelectSeq(sorted, LAMBDA msg :
                                 msg.timestamp < Head(list).timestamp)
       IN before \o <<Head(list)>>
            \o SubSeq(sorted, Len(before) + 1, Len(sorted))

\* Array.prototype.sort((a, b) => b.timestamp - a.timestamp), which keeps
\* the order of messages of the same timestamp
RECURSIVE SortNewestFirst(_)
SortNewestFirst(list) ==
  IF list = <<>> THEN <<>>
  ELSE LET sorted == SortNewestFirst(Tail(list))
           before == SelectSeq(sorted, LAMBDA msg :
                                 msg.timestamp > Head(list).timestamp)
       IN before \o <<Head(list)>>
            \o SubSeq(sorted, Len(before) + 1, Len(sorted))

\* the detection's fields that getConversationContext reads
\* (keyword-detector.js: senderName is message.senderName || senderId)
TargetOf(msg) ==
  [messageId |-> msg.id, chatId |-> msg.chatId,
   senderName |-> IF msg.senderName # "" THEN msg.senderName
                  ELSE msg.senderId,
   timestamp |-> msg.timestamp]

\* getConversationContext of the runner
getConversationContext(targetDetection, messages) ==
  LET chatMessages ==
        SelectSeq(messages, LAMBDA msg :
          \/ msg.chatId = targetDetection.chatId
          \/ msg.senderId = targetDetection.senderName
          \/ (msg.chatId = "" /\ targetDetection.chatId = ""))
      contextMessages ==
        SelectSeq(chatMessages, LAMBDA msg :
          Abs(msg.timestamp - targetDetection.timestamp) <= contextWindow)
  IN SortByTimestamp(contextMessages)

\* getConversationContext of utils/keywordDetector.ts
getConversationContextTs(targetMessage, messages) ==
  LET chatMessages ==
        SelectSeq(messages, LAMBDA msg : msg.chatId = targetMessage.chatId)
  IN SortByTimestamp(
       SelectSeq(chatMessages, LAMBDA msg :
         Abs(msg.timestamp - targetMessage.timestamp) <= contextWindow))

\* buildAnalysisPrompt: the messages of the history that the prompt shows
PromptMessages(conversationHistory) ==
  SubSeq(conversationHistory,
         Greatest(1, Len(conversationHistory) - shownMessages + 1),
         Len(conversationHistory))

\* getConversationContext has not been called
NoTarget == [messageId |-> 0, chatId |-> "", senderName |-> "", timestamp |-> 0]

NoContexts == [runner |-> <<>>, ts |-> <<>>]

----------------------------------------------------------------------------
(* CachedGreenApiService.  The cache maps a key to an entry [data,         *)
(* timestamp, expiry] or to Absent; the data are lists, which are truthy   *)
(* even when empty.  What the service of the superclass does in one call   *)
(* is [ok, limited, data]: it resolves with data, or rejects, with status  *)
(* 429 or otherwise.                                                       *)

\* 60 * 1000
DEFAULT_TTL == 60000
\* 5 * 60 * 1000
CHATS_TTL == 300000

ChatsKey == "getChats_{}"
MessagesKey == "getLastThreeDaysMessages_{}"
HistoryKey == "getChatHistory_{chatId:dana@c.us,count:30}"

CacheKeys == {ChatsKey, MessagesKey, HistoryKey}

Absent == [present |-> FALSE, data |-> <<>>, timestamp |-> 0, expiry |-> 0]

EmptyCache == [key \in CacheKeys |-> Absent]

NoCall == [method |-> "", outcome |-> "", data |-> <<>>, failed |-> FALSE]

isExpired(entry, clock) == clock > entry.expiry

setCache(cache, key, data, ttl, clock) ==
  [cache EXCEPT ![key] = [present |-> TRUE, data |-> data,
                          timestamp |-> clock, expiry |-> clock + ttl]]

\* getCache returns the data of the entry
Cached(cache, key, clock) ==
  cache[key].present /\ ~isExpired(cache[key], clock)

\* the cache after getCache: a key without entry, or with an expired one,
\* is deleted
getCache(cache, key, clock) ==
  IF Cached(cache, key, clock) THEN cache
  ELSE [cache EXCEPT ![key] = Absent]

\* the catch block of getChats and of getLastThreeDaysMessages
StaleOrThrown(cache, key) ==
  IF cache[key].present
  THEN [cache |-> cache, outcome |-> "stale", data |-> cache[key].data,
        failed |-> TRUE]
  ELSE [cache |-> cache, outcome |-> "thrown", data |-> <<>>,
        failed |-> TRUE]

getChats(cache, clock, upstream) ==
  IF Cached(cache, ChatsKey, clock)
  THEN [cache |-> cache, outcome |-> "cached", data |-> cache[ChatsKey].data,
        failed |-> FALSE]
  ELSE LET missed == getCache(cache, ChatsKey, clock)
       IN IF upstream.ok
          THEN [cache |-> setCache(missed, ChatsKey, upstream.data,
                                   CHATS_TTL, clock),
                outcome |-> "fetched", data |-> upstream.data,
                failed |-> FALSE]
          ELSE StaleOrThrown(missed, ChatsKey)

\* getChatHistory of the one chat: after a rejection with status 429 the
\* service is called once more, and its result is not cached
getChatHistory(cache, clock, upstream, again) ==
  IF Cached(cache, HistoryKey, clock)
  THEN [cache |-> cache, outcome |-> "cached",
        data |-> cache[HistoryKey].data, failed |-> FALSE]
  ELSE LET missed == getCache(cache, HistoryKey, clock)
       IN IF upstream.ok
          THEN [cache |-> setCache(missed, HistoryKey, upstream.data,
                                   DEFAULT_TTL, clock),
                outcome |-> "fetched", data |-> upstream.data,
                failed |-> FALSE]
          ELSE IF upstream.limited /\ again.ok
          THEN [cache |-> missed, outcome |-> "fetched", data |-> again.data,
                failed |-> FALSE]
          ELSE [cache |-> missed, outcome |-> "thrown", data |-> <<>>,
                failed |-> TRUE]

\* getLastThreeDaysMessagesWithRateLimit: the chats, then the history of
\* each chat; a history that cannot be fetched counts as empty
getLastThreeDaysMessagesWithRateLimit(cache, clock, chats, history, again) ==
  LET listed == getChats(cache, clock, chats)
  IN IF listed.outcome = "thrown" THEN listed
     ELSE IF listed.data = <<>>
     THEN [cache |-> listed.cache, outcome |-> "fetched", data |-> <<>>,
           failed |-> FALSE]
     ELSE LET fetched == getChatHistory(listed.cache, clock, history, again)
          IN [cache |-> fetched.cache, outcome |-> "fetched",
              data |-> fetched.data, failed |-> FALSE]

getLastThreeDaysMessages(cache, clock, chats, history, again) ==
  IF Cached(cache, MessagesKey, clock)
  THEN [cache |-> cache, outcome |-> "cached",
        data |-> cache[MessagesKey].data, failed |-> FALSE]
  ELSE LET missed == getCache(cache, MessagesKey, clock)
           messages == getLastThreeDaysMessagesWithRateLimit(
                         missed, clock, chats, history, again)
       IN IF messages.outcome # "thrown"
          THEN [cache |-> setCache(messages.cache, MessagesKey,
                                   messages.data, DEFAULT_TTL, clock),
                outcome |-> "fetched", data |-> messages.data,
                failed |-> FALSE]
          ELSE StaleOrThrown(messages.cache, MessagesKey)

\* the keys that a call has set
KeysSet(before, after) ==
  {key \in CacheKeys : after[key].present /\ after[key] # before[key]}

----------------------------------------------------------------------------
(* WhatsAppCalendarAuditApp.runAudit.  A call is made by one of the two    *)
(* cron tasks or directly; it runs until its first await without another   *)
(* call in between, and so from each await to the next.                    *)

Callers == {"morning", "evening", "direct"}

\* no call of runAudit is under way
Idle == [caller \in Callers |-> "idle"]

\* the finally block without the assignment when the audit has thrown
Finally_OnSuccess(running, rejected) == running /\ rejected

\* isRunning after the finally block
Finally(running, rejected) == FALSE

----------------------------------------------------------------------------
(* The audit runners: matching of the detections against calendar events. *)
(* An event is [id, start, day, timed, hours, minutes]: start says whether *)
(* the event has its start at all, start.dateTime is present when timed,   *)
(* else the event has start.date only; day, hours and minutes are those of *)
(* new Date(start.dateTime || start.date) in local time.                   *)

DigitChar(d) ==
  CASE d = 0 -> "0" [] d = 1 -> "1" [] d = 2 -> "2" [] d = 3 -> "3"
    [] d = 4 -> "4" [] d = 5 -> "5" [] d = 6 -> "6" [] d = 7 -> "7"
    [] d = 8 -> "8" [] d = 9 -> "9"

\* String(n) for 0 <= n <= 99
NumberString(n) ==
  IF n < 10 THEN <<DigitChar(n)>>
  ELSE <<DigitChar(n \div 10), DigitChar(n % 10)>>

\* String(n).padStart(2, '0')
padStart2(s) == IF Len(s) < 2 THEN <<"0">> \o s ELSE s

\* date.getHours() + ':' + String(date.getMinutes()).padStart(2, '0')
ClockString(hours, minutes) ==
  NumberString(hours) \o <<":">> \o padStart2(NumberString(minutes))

\* s.replace(/[^\d:]/g, '')
DigitsAndColons(s) == SelectSeq(s, LAMBDA c : c \in Digit \cup {":"})

\* the test of "Simple time conflict detection"
TimesAgree(meetingTime, eventTime) ==
  \/ includes(meetingTime, eventTime)
  \/ includes(eventTime, DigitsAndColons(meetingTime))

\* meetingDates of the oracle-capable runner
MeetingDates(meeting) ==
  IF meeting.llmDateTime.given /\ meeting.llmDateTime.parses
  THEN <<meeting.llmDateTime.day>>
  ELSE meeting.parsedDates

\* meetingTimeForComparison of the oracle-capable runner; <<>> is null
MeetingTimeForComparison(meeting) ==
  IF /\ meeting.llmDateTime.given
     /\ meeting.llmDateTime.parses
     /\ meeting.llmDateTime.colon
  THEN ClockString(meeting.llmDateTime.hours, meeting.llmDateTime.minutes)
  ELSE IF meeting.detectedTime # <<>> THEN toLowerCase(meeting.detectedTime)
  ELSE <<>>

\* SameDayRecord comparing times when either side has one
SameDayRecord_EitherTime(meeting, event, meetingTime) ==
  IF meetingTime # <<>> \/ event.timed
  THEN IF TimesAgree(meetingTime, ClockString(event.hours, event.minutes))
       THEN [list |-> "confirmedMeetings", meeting |-> meeting.messageId,
             event |-> event.id, reason |-> "Time and date match"]
       ELSE [list |-> "conflicts", meeting |-> meeting.messageId,
             event |-> event.id,
             reason |-> "Same day, potentially conflicting time"]
  ELSE [list |-> "confirmedMeetings", meeting |-> meeting.messageId,
        event |-> event.id, reason |-> "Date match, time unclear"]

\* the body of "if it's the same day": the record pushed for one meeting
\* date that falls on the day of one event
SameDayRecord(meeting, event, meetingTime) ==
  IF meetingTime # <<>> /\ event.timed
  THEN IF TimesAgree(meetingTime, ClockString(event.hours, event.minutes))
       THEN [list |-> "confirmedMeetings", meeting |-> meeting.messageId,
             event |-> event.id, reason |-> "Time and date match"]
       ELSE [list |-> "conflicts", meeting |-> meeting.messageId,
             event |-> event.id,
             reason |-> "Same day, potentially conflicting time"]
  ELSE [list |-> "confirmedMeetings", meeting |-> meeting.messageId,
        event |-> event.id, reason |-> "Date match, time unclear"]

\* the two inner loops for one meeting: for each event, for each meeting date
EventRecords(meeting, calendarEvents, meetingDates, meetingTime) ==
  LET RECURSIVE Dates(_, _)
      Dates(event, j) ==
        IF j > Len(meetingDates) THEN <<>>
        ELSE (IF meetingDates[j] = event.day
              THEN <<SameDayRecord(meeting, event, meetingTime)>>
              ELSE <<>>) \o Dates(event, j + 1)
      RECURSIVE Events(_)
      Events(k) ==
        IF k > Len(calendarEvents) THEN <<>>
        ELSE Dates(calendarEvents[k], 1) \o Events(k + 1)
  IN Events(1)

\* EffectiveConfidence as the mean of the two confidences
EffectiveConfidence_Mean(meeting) ==
  IF meeting.llmAnalysis.present
  THEN (meeting.llmAnalysis.confidence * 10 + meeting.confidence) \div 2
  ELSE meeting.confidence

\* in thousandths
EffectiveConfidence(meeting) ==
  IF meeting.llmAnalysis.present THEN meeting.llmAnalysis.confidence * 10
  ELSE meeting.confidence

\* MeetingRecords with the threshold 0.5
MeetingRecords_Half(meeting, calendarEvents) ==
  LET found == EventRecords(meeting, calendarEvents, MeetingDates(meeting),
                            MeetingTimeForComparison(meeting))
  IN IF found = <<>> /\ EffectiveConfidence(meeting) > 500
     THEN << [list |-> "missingEvents", meeting |-> meeting.messageId,
              event |-> 0,
              reason |-> IF meeting.llmAnalysis.present
                         THEN "Claude confirmed meeting not found in calendar"
                         ELSE "High confidence meeting not found in calendar"] >>
     ELSE found

\* one iteration of the outer loop of the oracle-capable runner
MeetingRecords(meeting, calendarEvents) ==
  LET found == EventRecords(meeting, calendarEvents, MeetingDates(meeting),
                            MeetingTimeForComparison(meeting))
  IN IF found = <<>> /\ EffectiveConfidence(meeting) > 600
     THEN << [list |-> "missingEvents", meeting |-> meeting.messageId,
              event |-> 0,
              reason |-> IF meeting.llmAnalysis.present
                         THEN "Claude confirmed meeting not found in calendar"
                         ELSE "High confidence meeting not found in calendar"] >>
     ELSE found

\* one iteration of the outer loop of the keyword-only runner
MeetingRecordsKeywordOnly(meeting, calendarEvents) ==
  LET found == EventRecords(meeting, calendarEvents, meeting.parsedDates,
                            toLowerCase(meeting.detectedTime))
  IN IF found = <<>> /\ meeting.confidence > 400
     THEN << [list |-> "missingEvents", meeting |-> meeting.messageId,
              event |-> 0,
              reason |-> "High confidence meeting not found in calendar"] >>
     ELSE found

\* analyzeConflictsAndMissing of either runner: the records in the order
\* they are pushed; the three result arrays are its parts by list
analyzeConflictsAndMissing(keywordOnly, detectedMeetings, calendarEvents) ==
  LET RECURSIVE Meetings(_)
      Meetings(k) ==
        IF k > Len(detectedMeetings) THEN <<>>
        ELSE (IF keywordOnly
              THEN MeetingRecordsKeywordOnly(detectedMeetings[k], calendarEvents)
              ELSE MeetingRecords(detectedMeetings[k], calendarEvents))
               \o Meetings(k + 1)
  IN Meetings(1)

\* analyzeConflictsAndMissing throws a TypeError: for the first meeting the
\* inner loop reads event.start.dateTime of every event
Throws(detectedMeetings, calendarEvents) ==
  /\ detectedMeetings # <<>>
  /\ \E k \in 1..Len(calendarEvents) : ~calendarEvents[k].start

ListOf(records, list) == SelectSeq(records, LAMBDA r : r.list = list)

----------------------------------------------------------------------------
(* The audit runners: the summary *)

\* the entries of a list that the summary shows
shownEntries == 3

\* no summary is sent
NoSummary ==
  [sent |-> FALSE, allGood |-> FALSE,
   conflicts |-> [count |-> 0, shown |-> <<>>, more |-> 0],
   missingEvents |-> [count |-> 0, shown |-> <<>>, more |-> 0]]

\* the paragraph of the summary for one list: its length in the heading,
\* its first entries, and how many more there are; nothing for an empty
\* list
Paragraph(list) ==
  IF Len(list) = 0 THEN [count |-> 0, shown |-> <<>>, more |-> 0]
  ELSE [count |-> Len(list),
        shown |-> SubSeq(list, 1, IF Len(list) > shownEntries
                                  THEN shownEntries ELSE Len(list)),
        more  |-> IF Len(list) > shownEntries
                  THEN Len(list) - shownEntries ELSE 0]

\* the message that sendComprehensiveSummary sends, as far as it is about
\* the conflicts and the missing events
sendComprehensiveSummary(conflicts, missingEvents) ==
  LET allGood == Len(conflicts) = 0 /\ Len(missingEvents) = 0
  IN [sent |-> TRUE, allGood |-> allGood,
      conflicts |-> Paragraph(conflicts),
      missingEvents |-> Paragraph(missingEvents)]

----------------------------------------------------------------------------
(* The audit runners: the calendar queries *)

\* Set.add in insertion order
AddAll(list, more) == Unique(list \o more)

\* datesToCheck of the oracle-capable runner, in insertion order
DatesToCheck(detectedMeetings, now) ==
  LET RECURSIVE Dates(_)
      Dates(k) ==
        IF k > Len(detectedMeetings) THEN <<>>
        ELSE LET meeting == detectedMeetings[k]
             IN (IF meeting.llmDateTime.given /\ meeting.llmDateTime.parses
                 THEN <<meeting.llmDateTime.day>>
                 ELSE IF Len(meeting.parsedDates) > 0
                      THEN meeting.parsedDates
                 ELSE <<now, now + 1>>) \o Dates(k + 1)
  IN Unique(Dates(1))

\* datesToCheck of the keyword-only runner
DatesToCheckKeywordOnly(detectedMeetings, now) ==
  LET RECURSIVE Dates(_)
      Dates(k) ==
        IF k > Len(detectedMeetings) THEN <<>>
        ELSE LET meeting == detectedMeetings[k]
             IN (IF Len(meeting.parsedDates) > 0 THEN meeting.parsedDates
                 ELSE <<now, now + 1>>) \o Dates(k + 1)
  IN Unique(Dates(1))

\* minutes after midnight at which an event starts
StartMinute(event) == IF event.timed THEN event.hours * 60 + event.minutes ELSE 0

\* orderBy: 'startTime'
RECURSIVE ByStartTime(_)
ByStartTime(events) ==
  IF events = {} THEN <<>>
  ELSE LET first == CHOOSE e \in events : \A f \in events :
                      \/ e.day < f.day
                      \/ e.day = f.day /\ StartMinute(e) < StartMinute(f)
                      \/ e.day = f.day /\ StartMinute(e) = StartMinute(f)
                           /\ e.id <= f.id
       IN <<first>> \o ByStartTime(events \ {first})

\* calendar.events.list for the days from..to of a calendar
EventsList(calendar, from, to) ==
  ByStartTime({e \in calendar : e.day >= from /\ e.day <= to})

\* the loop "Query calendar for each relevant date"; the queries of the
\* dates in failed throw and are skipped
RECURSIVE QueryEach(_, _, _)
QueryEach(calendar, dates, failed) ==
  IF dates = <<>> THEN <<>>
  ELSE (IF Head(dates) \in failed THEN <<>>
        ELSE EventsList(calendar, Head(dates), Head(dates)))
         \o QueryEach(calendar, Tail(dates), failed)

\* the calls of calendar.events.list, as the days from..to asked for: one
\* window of 7 days without detections, else one day per date to check
CalendarQueries(keywordOnly, detectedMeetings, now) ==
  IF Len(detectedMeetings) = 0 THEN <<[from |-> now, to |-> now + 7]>>
  ELSE LET datesToCheck ==
             IF keywordOnly
             THEN DatesToCheckKeywordOnly(detectedMeetings, now)
             ELSE DatesToCheck(detectedMeetings, now)
       IN [k \in 1..Len(datesToCheck) |->
             [from |-> datesToCheck[k], to |-> datesToCheck[k]]]

\* the queries made: one window of 7 days without detections, else one
\* day per date to check
getRelevantCalendarEvents(keywordOnly, detectedMeetings, now, calendar, failed) ==
  IF Len(detectedMeetings) = 0
  THEN IF now \in failed THEN <<>> ELSE EventsList(calendar, now, now + 7)
  ELSE QueryEach(calendar,
                 IF keywordOnly
                 THEN DatesToCheckKeywordOnly(detectedMeetings, now)
                 ELSE DatesToCheck(detectedMeetings, now),
                 failed)

----------------------------------------------------------------------------
(* Inputs of a run *)

\* Monday 16 December 2024
Monday == NewDate(2024, 11, 16)

\* the day of the audit: the day the messages were sent, or the next day
AuditDays == {Monday, Monday + 1}

\* messages are sent on the Monday at 22:00 (unix seconds)
SentAt == (Monday - 4) * 86400 + 22 * 3600

\* the texts with the indices in S, in the order of Texts
RECURSIVE TextsOf(_)
TextsOf(S) ==
  IF S = {} THEN <<>> ELSE <<Texts[Min(S)]>> \o TextsOf(S \ {Min(S)})

\* the batches getRecentMessages can return: at most MaxMsgs messages with
\* different texts
Batches ==
  {[k \in 1..Cardinality(S) |->
      [id |-> k, chatId |-> "chat", text |-> TextsOf(S)[k],
       timestamp |-> SentAt]] :
     S \in {T \in SUBSET (1..Len(Texts)) : Cardinality(T) <= MaxMsgs}}

Event(id, day, timed, hours, minutes) ==
  [id |-> id, start |-> TRUE, day |-> day, timed |-> timed, hours |-> hours,
   minutes |-> minutes]

\* the events a calendar can hold
CalendarEvents ==
  { Event(1, Monday + 1, FALSE, 0, 0),
    Event(2, Monday + 1, TRUE, 14, 30),
    Event(3, Monday + 1, TRUE, 15, 0),
    Event(4, Monday + 2, TRUE, 15, 0) }

Calendars == {c \in SUBSET CalendarEvents : Cardinality(c) <= MaxEvents}

\* batches as the chats return them, before getRecentMessages sorts them:
\* messages of two of the texts, sent at 20:00, 21:00 or 22:00
TimedBatches ==
  UNION {{[k \in 1..n |->
             [id |-> k, chatId |-> "chat", text |-> sent[k].text,
              timestamp |-> sent[k].timestamp]] :
            sent \in [1..n -> [text : {Texts[2], Texts[3]},
                               timestamp : {SentAt - 7200, SentAt - 3600,
                                            SentAt}]]} :
           n \in 0..MaxMsgs}

\* batches with the texts that the fallback verdict turns down, and one
\* that it lets pass
WeakBatches ==
  UNION {{[k \in 1..n |->
             [id |-> k, chatId |-> "chat", text |-> texts[k],
              timestamp |-> SentAt]] :
            texts \in [1..n -> {Texts[3], WeakTexts[1], WeakTexts[2]}]} :
           n \in 0..MaxMsgs}

\* calendars whose events of the Tuesday are at other times than the texts
\* name
BusyCalendars ==
  {c \in SUBSET {Event(6, Monday + 1, TRUE, 9, 15),
                 Event(7, Monday + 1, TRUE, 11, 45),
                 Event(8, Monday, TRUE, 9, 15)} : Cardinality(c) <= MaxEvents}

\* an item without start that the calendar returns with those of the Tuesday
NoStart == [Event(5, Monday + 1, FALSE, 0, 0) EXCEPT !.start = FALSE]

\* the calendars that hold it
MalformedCalendars ==
  {c \cup {NoStart} : c \in {d \in Calendars : Cardinality(d) < MaxEvents}}

\* an exception in the try block of one iteration of enhanceWithLLMAnalysis,
\* before the oracle is called
Thrown == Reply("throw", <<>>)

\* what one iteration can come to
Outcomes(enabled) ==
  (IF enabled THEN OracleReplies ELSE {NoReply}) \cup {Thrown}

\* the values a response gives isValidMeeting; <<>>: the member is absent
IsValidMeetingTexts == {<<>>, TrueText, FalseText}

\* the values a response gives confidence
ConfidenceTexts ==
  { <<>>,
    <<"8", "5">>,
    <<"0">>,
    <<"-", "5">>,
    <<"1", "5", "0">>,
    Quoted(<<"7", "2">>),
    Quoted(<<"h", "i", "g", "h">>),
    <<"n", "u", "l", "l">> }

\* the values a response gives extractedDateTime
ExtractedDateTimeTexts ==
  { <<>>,
    TuesdayAt15,
    Quoted(<<"2", "0", "2", "4", "-", "1", "2", "-", "1", "7", " ", "1", "5",
             ":", "0", "0">>),
    Wednesday,
    Soon,
    <<"n", "u", "l", "l">> }

\* the JSON objects of the responses
Objects ==
  {ObjectText(isValidMeeting, confidence, extractedDateTime) :
     isValidMeeting \in IsValidMeetingTexts, confidence \in ConfidenceTexts,
     extractedDateTime \in ExtractedDateTimeTexts}

\* a response with the object in a fence of the language json
Fenced(object) ==
  Fence \o <<"j", "s", "o", "n", "\n">> \o object
    \o <<"\n">> \o Fence

\* a response with the object in a fence without a language
FencedPlain(object) ==
  Fence \o <<"\n">> \o object \o <<"\n">> \o Fence

\* a response with a sentence before the object
Introduced(object) ==
  <<"H", "e", "r", "e", " ", "i", "s", " ", "t", "h", "e", " ", "a", "n",
    "a", "l", "y", "s", "i", "s", ":", " ">> \o object

\* a response with a sentence after the object
Followed(object) ==
  object \o <<" ", "H", "o", "p", "e", " ", "t", "h", "i", "s", " ", "h",
              "e", "l", "p", "s", ".">>

\* a response with a sentence after the object that has braces of its own
FollowedByBraces(object) ==
  object \o <<" ", "{", "s", "e", "e", " ", "t", "h", "e", " ", "m", "e",
              "s", "s", "a", "g", "e", "s", "}">>

\* responses that have no JSON object: prose, nothing, JSON values of other
\* types, an object cut off before its end
WithoutObject ==
  { <<>>,
    <<"I", " ", "c", "a", "n", "n", "o", "t", " ", "t", "e", "l", "l">>,
    <<"4", "2">>,
    TrueText,
    <<"n", "u", "l", "l">>,
    Quoted(<<"a", " ", "m", "e", "e", "t", "i", "n", "g">>),
    <<"[", "1", ",", " ", "2", "]">>,
    <<"{", "\"", "i", "s", "V", "a", "l", "i", "d", "M", "e", "e", "t", "i",
      "n", "g", "\"", ":", " ", "t", "r", "u", "e", ",", " ", "\"", "c",
      "o", "n", "f", "i", "d", "e", "n", "c", "e", "\"", ":", " ", "8", "5">> }

\* the responses parseAnalysisResponse is applied to
Responses ==
  WithoutObject \cup Objects
    \cup {Fenced(object) : object \in Objects}
    \cup {FencedPlain(object) : object \in Objects}
    \cup {Introduced(object) : object \in Objects}
    \cup {Followed(object) : object \in Objects}
    \cup {FollowedByBraces(object) : object \in Objects}

\* the days parseDates and getNextWeekday are run on: each day of a week
Week == Monday..(Monday + 6)

\* the numeric dates of the tokens: with days and months that no calendar
\* has, with years of two and of four digits, with each separator of the
\* date patterns, with and without a leading zero
NumericDates ==
  [day : {5, 15, 29, 31}, month : {2, 4, 12, 13}, year : {24, 2024, 2025},
   separator : {"/", "-", "."}, padded : BOOLEAN]

\* the token of a numeric date, as the date patterns match it in a text
NumericToken(date) ==
  LET Digits(n) == IF date.padded THEN padStart2(NumberString(n))
                   ELSE NumberString(n)
      century == IF date.year < 100 THEN <<>>
                 ELSE NumberString(date.year \div 100)
  IN Digits(date.day) \o <<date.separator>> \o Digits(date.month)
       \o <<date.separator>> \o century
       \o padStart2(NumberString(date.year % 100))

\* the tokens the date patterns extract
Tokens ==
  {RelativeDay[k] : k \in 1..Len(RelativeDay)}
    \cup {EnglishWeekday[k] : k \in 1..Len(EnglishWeekday)}
    \cup {HebrewWeekday[k] : k \in 1..Len(HebrewWeekday)}
    \cup {WeekPhrase[k] : k \in 1..Len(WeekPhrase)}
    \cup {NumericToken(date) : date \in NumericDates}

\* 31/02/2025
LastOfFebruary ==
  NumericToken([day |-> 31, month |-> 2, year |-> 2025, separator |-> "/",
                padded |-> TRUE])

\* the lists of tokens parseDates is applied to, in the order extractDates
\* gives them: no token, one token, a token before "next week", a token
\* after 31/02/2025
DateStrings ==
  {<<>>} \cup {<<token>> : token \in Tokens}
    \cup {<<token, WeekPhrase[1]>> : token \in Tokens \ {WeekPhrase[1]}}
    \cup {<<LastOfFebruary, token>> : token \in Tokens \ {LastOfFebruary}}

\* who sends a message: the sender's id and the sender's name, both as
\* the upstream gives them; the name of a sender can be the sender's id
Senders ==
  { [senderId |-> "dana@c.us", senderName |-> "Dana"],
    [senderId |-> "dana@c.us", senderName |-> "dana@c.us"],
    [senderId |-> "yoni@c.us", senderName |-> "Yoni"] }

\* the messages of two chats, sent at the time of the messages of a run,
\* two hours later and a second after that
ContextMessages ==
  { [chatId |-> chat, senderId |-> sender.senderId,
     senderName |-> sender.senderName, timestamp |-> SentAt + later] :
      chat \in {"dana@c.us", "family@g.us"}, sender \in Senders,
      later \in {0, contextWindow, contextWindow + 1} }

\* what getRecentMessages returns: at most MaxContext messages, the newest
\* first, each with its id
RecentMessages ==
  LET lists == UNION {[1..n -> ContextMessages] : n \in 1..MaxContext}
      newestFirst ==
        {list \in lists :
           \A k \in 1..(Len(list) - 1) :
             list[k].timestamp >= list[k + 1].timestamp}
  IN {[k \in 1..Len(list) |->
         [id |-> k, chatId |-> list[k].chatId,
          senderId |-> list[k].senderId, senderName |-> list[k].senderName,
          timestamp |-> list[k].timestamp]] : list \in newestFirst}

\* the parts of the texts analyzeMessage is given: none, one or two words
\* that are keywords of both detectors, numeric dates, times of the clock,
\* and names, none of which has a keyword in it
KeywordPart ==
  << <<>>,
     <<"c", "a", "l", "l", " ">>,
     <<"c", "a", "l", "l", " ", "n", "i", "g", "h", "t", " ">> >>

DatePart ==
  << <<>>,
     <<"1", "/", "2", "/", "2", "0", "2", "5", " ">>,
     <<"1", "/", "2", "/", "2", "0", "2", "5", " ", "3", "-", "4", "-",
       "2", "0", "2", "5", " ">> >>

TimePart ==
  << <<>>,
     <<"1", "0", ":", "0", "0", " ">>,
     <<"1", "0", ":", "0", "0", " ", "1", "1", ":", "3", "0", " ">> >>

NamePart ==
  << <<>>,
     <<"D", "a", "n", "a", " ", "L", "e", "v", "i">>,
     <<"D", "a", "n", "a", " ", "L", "e", "v", "i", ",", " ", "N", "o",
       "g", "a", " ", "P", "e", "l", "e", "d">> >>

\* the texts: the four parts in a row, and a text of white space
AnalyzeTexts ==
  {KeywordPart[k] \o DatePart[d] \o TimePart[t] \o NamePart[n] :
     k \in 1..Len(KeywordPart), d \in 1..Len(DatePart),
     t \in 1..Len(TimePart), n \in 1..Len(NamePart)}
    \cup {<<" ", " ">>}

\* the numbers of matches calculateConfidence is given: the lengths of the
\* lists of keywords, dates, times and names found in a text
Counts ==
  [keywordMatches : 0..MaxCount, dateMatches : 0..MaxCount,
   timeMatches : 0..MaxCount, nameMatches : 0..MaxCount]

\* the calendar queries that fail in a run, by the day asked for
FailingQueries == {{}, {Monday + 1}}

----------------------------------------------------------------------------
(* One audit run of one user *)

VARIABLES
  keywordOnly,        \* the runner: keyword-only, or oracle-capable
  enabled,            \* LLMAnalyzer.enabled
  now,                \* the day of the run
  pc,                 \* where auditUser is
  messages,           \* getRecentMessages' result
  keywordDetections,  \* detectMeetings' result
  next,               \* the detection enhanceWithLLMAnalysis is at
  detectedMeetings,   \* the meetings handed to the calendar and the matcher
  oracleCalls,        \* calls of messages.create, per message id
  replies,            \* what the oracle replied, per message id
  queries,            \* the windows of days the calendar was asked for
  relevantEvents,     \* getRelevantCalendarEvents' result
  summary,            \* the message of sendComprehensiveSummary
  confirmedMeetings, conflicts, missingEvents,  \* auditResults
  response,           \* the text parseAnalysisResponse is given
  verdict,            \* the verdict parseAnalysisResponse returns
  dateStrings,        \* the tokens parseDates is given
  parsedDates,        \* the days parseDates or getNextWeekday returns
  targetDay,          \* the weekday getNextWeekday is given
  counts,             \* the numbers of matches calculateConfidence is given
  confidences,        \* what calculateConfidence returns, in each detector
  message,            \* the message analyzeMessage is given
  candidates,         \* what analyzeMessage returns, in each detector
  allMessages,        \* the messages getConversationContext is given
  target,             \* the detection getConversationContext is given
  contexts,           \* the messages handed to the oracle, in each variant
  userFiles,          \* the files of data/users, in the order of readdir
  file,               \* the file the loop of runStandaloneAudit is at
  auditedUsers,       \* the files whose user auditUser was called for
  logged,             \* the files an error was logged for
  exitCode,           \* the exit code of the process
  cache,              \* the Map of CachedGreenApiService, by key
  clock,              \* Date.now(), in milliseconds
  everCached,         \* the keys setCache was called with
  returned,           \* what the last call came to
  steps,              \* the calls made and the times waited
  isRunning,          \* WhatsAppCalendarAuditApp.isRunning
  at,                 \* where each call of runAudit is
  recipientPhone,     \* WHATSAPP_PHONE_NUMBER is set
  triggers,           \* the calls of runAudit
  skipped,            \* the calls that returned without an audit
  threw               \* the calls that threw

vars ==
  <<keywordOnly, enabled, now, pc, messages, keywordDetections, next,
    detectedMeetings, oracleCalls, replies, queries, relevantEvents,
    confirmedMeetings, conflicts, missingEvents, summary, response, verdict,
    dateStrings, parsedDates, targetDay, counts, confidences, message,
    candidates, allMessages, target, contexts, userFiles, file, auditedUsers,
    logged, exitCode, cache, clock, everCached, returned, steps, isRunning, at,
    recipientPhone, triggers, skipped, threw>>

\* the variables of an audit run, but for pc
runVars ==
  <<keywordOnly, enabled, now, messages, keywordDetections, next,
    detectedMeetings, oracleCalls, replies, queries, relevantEvents,
    confirmedMeetings, conflicts, missingEvents, summary>>

\* the variables of the functions that are run on their own
parseVars == <<response, verdict>>

dateVars == <<dateStrings, parsedDates, targetDay>>

confidenceVars == <<counts, confidences>>

analyzeVars == <<message, candidates>>

contextVars == <<allMessages, target, contexts>>

usersVars == <<userFiles, file, auditedUsers, logged, exitCode>>

cacheVars == <<cache, clock, everCached, returned, steps>>

appVars == <<isRunning, at, recipientPhone, triggers, skipped, threw>>

functionVars ==
  <<parseVars, dateVars, confidenceVars, analyzeVars,
    contextVars, usersVars, cacheVars, appVars>>

NoParse ==
  /\ response = <<>>
  /\ verdict = NoAnalysis

NoDate ==
  /\ dateStrings = <<>>
  /\ parsedDates = <<>>
  /\ targetDay = 0

NoConfidence ==
  /\ counts = NoCounts
  /\ confidences = NoConfidences

NoAnalyze ==
  /\ message = NoMessage
  /\ candidates = NoCandidates

NoContext ==
  /\ allMessages = <<>>
  /\ target = NoTarget
  /\ contexts = NoContexts

NoUsers ==
  /\ userFiles = <<>>
  /\ file = 1
  /\ auditedUsers = <<>>
  /\ logged = <<>>
  /\ exitCode = 0

NoCache ==
  /\ cache = EmptyCache
  /\ clock = 0
  /\ everCached = {}
  /\ returned = NoCall
  /\ steps = 0

NoApp ==
  /\ isRunning = FALSE
  /\ at = Idle
  /\ recipientPhone = FALSE
  /\ triggers = 0
  /\ skipped = 0
  /\ threw = 0

\* no function is run on its own
NoFunction ==
  /\ NoParse
  /\ NoDate
  /\ NoConfidence
  /\ NoAnalyze
  /\ NoContext
  /\ NoUsers
  /\ NoCache
  /\ NoApp

\* auditUser has not started
NoRun ==
  /\ messages = <<>>
  /\ keywordDetections = <<>>
  /\ next = 1
  /\ detectedMeetings = <<>>
  /\ oracleCalls = [id \in 1..MaxMsgs |-> 0]
  /\ replies = [id \in 1..MaxMsgs |-> NoReply]
  /\ queries = <<>>
  /\ relevantEvents = <<>>
  /\ confirmedMeetings = <<>>
  /\ conflicts = <<>>
  /\ missingEvents = <<>>
  /\ summary = NoSummary

\* what a function that is run on its own leaves alone, and where the rest
\* is when it starts
exceptParse ==
  <<runVars, dateVars, confidenceVars, analyzeVars,
    contextVars, usersVars, cacheVars, appVars>>

OnlyParse ==
  /\ NoRun
  /\ NoDate
  /\ NoConfidence
  /\ NoAnalyze
  /\ NoContext
  /\ NoUsers
  /\ NoCache
  /\ NoApp

exceptDate ==
  <<runVars, parseVars, confidenceVars, analyzeVars,
    contextVars, usersVars, cacheVars, appVars>>

OnlyDate ==
  /\ NoRun
  /\ NoParse
  /\ NoConfidence
  /\ NoAnalyze
  /\ NoContext
  /\ NoUsers
  /\ NoCache
  /\ NoApp

exceptConfidence ==
  <<runVars, parseVars, dateVars, analyzeVars,
    contextVars, usersVars, cacheVars, appVars>>

OnlyConfidence ==
  /\ NoRun
  /\ NoParse
  /\ NoDate
  /\ NoAnalyze
  /\ NoContext
  /\ NoUsers
  /\ NoCache
  /\ NoApp

exceptAnalyze ==
  <<runVars, parseVars, dateVars, confidenceVars,
    contextVars, usersVars, cacheVars, appVars>>

OnlyAnalyze ==
  /\ NoRun
  /\ NoParse
  /\ NoDate
  /\ NoConfidence
  /\ NoContext
  /\ NoUsers
  /\ NoCache
  /\ NoApp

exceptContext ==
  <<runVars, parseVars, dateVars, confidenceVars,
    analyzeVars, usersVars, cacheVars, appVars>>

OnlyContext ==
  /\ NoRun
  /\ NoParse
  /\ NoDate
  /\ NoConfidence
  /\ NoAnalyze
  /\ NoUsers
  /\ NoCache
  /\ NoApp

exceptUsers ==
  <<runVars, parseVars, dateVars, confidenceVars, analyzeVars,
    contextVars, cacheVars, appVars>>

OnlyUsers ==
  /\ NoRun
  /\ NoParse
  /\ NoDate
  /\ NoConfidence
  /\ NoAnalyze
  /\ NoContext
  /\ NoCache
  /\ NoApp

exceptCache ==
  <<runVars, parseVars, dateVars, confidenceVars, analyzeVars,
    contextVars, usersVars, appVars>>

OnlyCache ==
  /\ NoRun
  /\ NoParse
  /\ NoDate
  /\ NoConfidence
  /\ NoAnalyze
  /\ NoContext
  /\ NoUsers
  /\ NoApp

exceptApp ==
  <<runVars, parseVars, dateVars, confidenceVars, analyzeVars,
    contextVars, usersVars, cacheVars>>

OnlyApp ==
  /\ NoRun
  /\ NoParse
  /\ NoDate
  /\ NoConfidence
  /\ NoAnalyze
  /\ NoContext
  /\ NoUsers
  /\ NoCache

Init ==
  /\ keywordOnly \in BOOLEAN
  /\ enabled \in BOOLEAN
  /\ keywordOnly => ~enabled
  /\ now \in AuditDays
  /\ pc = "getRecentMessages"
  /\ NoRun
  /\ NoFunction

\* auditUser up to the first detection to analyse: the messages, one of
\* the given batches, are fetched and sorted, and the detector is run on
\* them
FetchMessages(batches) ==
  /\ pc = "getRecentMessages"
  /\ \E batch \in batches :
       LET sorted == SortNewestFirst(batch)
           detections == detectMeetings(sorted, now)
       IN /\ messages' = sorted
          /\ keywordDetections' = detections
          /\ detectedMeetings' = IF keywordOnly THEN detections ELSE <<>>
          /\ pc' = IF keywordOnly \/ detections = <<>>
                   THEN "getRelevantCalendarEvents"
                   ELSE "enhanceWithLLMAnalysis"
  /\ UNCHANGED <<keywordOnly, enabled, now, next, oracleCalls, replies,
                 queries, relevantEvents, confirmedMeetings, conflicts,
                 missingEvents, summary, functionVars>>

GetRecentMessages == FetchMessages(Batches)

\* the test of enhanceWithLLMAnalysis without the least confidence
Confirms_AnyConfidence(llmResult) == llmResult.isValidMeeting

\* the test of enhanceWithLLMAnalysis: the oracle confirms the meeting
Confirms(llmResult) ==
  llmResult.isValidMeeting /\ llmResult.confidence > 50

\* the catch block of enhanceWithLLMAnalysis dropping the detection
Caught_Dropped(meetings, detection) == meetings

\* the catch block of enhanceWithLLMAnalysis
Caught(meetings, detection) == Append(meetings, detection)

\* enhanceWithLLMAnalysis calling the oracle again, up to two more times,
\* for a detection whose call has failed
EnhanceWithLLMAnalysis_Retry ==
  /\ pc = "enhanceWithLLMAnalysis"
  /\ next <= Len(keywordDetections)
  /\ \E reply \in Outcomes(enabled) :
       LET detection == keywordDetections[next]
           llmResult == analyzeConversation(enabled, detection, reply)
           analysed  == [detection EXCEPT !.llmAnalysis = llmResult]
           enhanced  == IF llmResult.extractedDateTime.given
                        THEN [analysed EXCEPT
                                !.llmDateTime = llmResult.extractedDateTime]
                        ELSE analysed
           again     == reply.kind = "error" /\ oracleCalls[detection.messageId] < 2
       IN /\ oracleCalls' =
               IF enabled /\ reply # Thrown
               THEN [oracleCalls EXCEPT ![detection.messageId] = @ + 1]
               ELSE oracleCalls
          /\ replies' = [replies EXCEPT ![detection.messageId] = reply]
          /\ IF again
             THEN UNCHANGED <<keywordDetections, detectedMeetings, next, pc>>
             ELSE /\ IF reply = Thrown
                     THEN /\ keywordDetections' = keywordDetections
                          /\ detectedMeetings' =
                               Caught(detectedMeetings, detection)
                     ELSE IF Confirms(llmResult)
                     THEN /\ keywordDetections' =
                               [keywordDetections EXCEPT ![next] = enhanced]
                          /\ detectedMeetings' =
                               Append(detectedMeetings, enhanced)
                     ELSE /\ keywordDetections' =
                               [keywordDetections EXCEPT ![next] = analysed]
                          /\ detectedMeetings' = detectedMeetings
                  /\ next' = next + 1
                  /\ pc' = IF next = Len(keywordDetections)
                           THEN "getRelevantCalendarEvents"
                           ELSE "enhanceWithLLMAnalysis"
  /\ UNCHANGED <<keywordOnly, enabled, now, messages, queries,
                 relevantEvents, confirmedMeetings, conflicts, missingEvents,
                 summary, functionVars>>

\* one iteration of the loop of enhanceWithLLMAnalysis: the try block with
\* the outcome of the oracle's call, or the catch block
EnhanceWithLLMAnalysis ==
  /\ pc = "enhanceWithLLMAnalysis"
  /\ next <= Len(keywordDetections)
  /\ \E reply \in Outcomes(enabled) :
       LET detection == keywordDetections[next]
           llmResult == analyzeConversation(enabled, detection, reply)
           analysed  == [detection EXCEPT !.llmAnalysis = llmResult]
           enhanced  == IF llmResult.extractedDateTime.given
                        THEN [analysed EXCEPT
                                !.llmDateTime = llmResult.extractedDateTime]
                        ELSE analysed
       IN /\ oracleCalls' =
               IF enabled /\ reply # Thrown
               THEN [oracleCalls EXCEPT ![detection.messageId] = @ + 1]
               ELSE oracleCalls
          /\ replies' = [replies EXCEPT ![detection.messageId] = reply]
          /\ IF reply = Thrown
             THEN /\ keywordDetections' = keywordDetections
                  /\ detectedMeetings' = Caught(detectedMeetings, detection)
             ELSE IF Confirms(llmResult)
             THEN /\ keywordDetections' =
                       [keywordDetections EXCEPT ![next] = enhanced]
                  /\ detectedMeetings' = Append(detectedMeetings, enhanced)
             ELSE /\ keywordDetections' =
                       [keywordDetections EXCEPT ![next] = analysed]
                  /\ detectedMeetings' = detectedMeetings
  /\ next' = next + 1
  /\ pc' = IF next = Len(keywordDetections)
           THEN "getRelevantCalendarEvents"
           ELSE "enhanceWithLLMAnalysis"
  /\ UNCHANGED <<keywordOnly, enabled, now, messages, queries,
                 relevantEvents, confirmedMeetings, conflicts, missingEvents,
                 summary, functionVars>>

\* auditUser: the calendar, one of the given ones, is queried for the
\* dates of the meetings
QueryCalendar(calendars) ==
  /\ pc = "getRelevantCalendarEvents"
  /\ \E calendar \in calendars : \E failed \in FailingQueries :
       relevantEvents' =
         getRelevantCalendarEvents(keywordOnly, detectedMeetings, now,
                                   calendar, failed)
  /\ queries' = CalendarQueries(keywordOnly, detectedMeetings, now)
  /\ pc' = "analyzeConflictsAndMissing"
  /\ UNCHANGED <<keywordOnly, enabled, now, messages, keywordDetections,
                 next, detectedMeetings, oracleCalls, replies,
                 confirmedMeetings, conflicts, missingEvents, summary,
                 functionVars>>

GetRelevantCalendarEvents == QueryCalendar(Calendars)

\* the rest of auditUser: the meetings are matched against the events and
\* the summary is sent, or the matcher throws and the catch block of
\* auditUser logs the error
AnalyzeConflictsAndMissing ==
  /\ pc = "analyzeConflictsAndMissing"
  /\ IF Throws(detectedMeetings, relevantEvents)
     THEN /\ pc' = "failed"
          /\ UNCHANGED <<confirmedMeetings, conflicts, missingEvents,
                         summary>>
     ELSE LET records == analyzeConflictsAndMissing(keywordOnly,
                                                   detectedMeetings,
                                                   relevantEvents)
          IN /\ confirmedMeetings' = ListOf(records, "confirmedMeetings")
             /\ conflicts' = ListOf(records, "conflicts")
             /\ missingEvents' = ListOf(records, "missingEvents")
             /\ summary' =
                  sendComprehensiveSummary(ListOf(records, "conflicts"),
                                           ListOf(records, "missingEvents"))
             /\ pc' = "done"
  /\ UNCHANGED <<keywordOnly, enabled, now, messages, keywordDetections,
                 next, detectedMeetings, oracleCalls, replies, queries,
                 relevantEvents, functionVars>>

Next ==
  \/ GetRecentMessages
  \/ EnhanceWithLLMAnalysis
  \/ GetRelevantCalendarEvents
  \/ AnalyzeConflictsAndMissing

Spec == Init /\ [][Next]_vars

----------------------------------------------------------------------------
(* One audit run whose calendar returns an event without start; the oracle *)
(* is disabled                                                             *)

InitMalformed == Init /\ ~enabled

GetMalformedCalendarEvents == QueryCalendar(MalformedCalendars)

NextMalformed ==
  \/ GetRecentMessages
  \/ EnhanceWithLLMAnalysis
  \/ GetMalformedCalendarEvents
  \/ AnalyzeConflictsAndMissing

SpecMalformed == InitMalformed /\ [][NextMalformed]_vars

----------------------------------------------------------------------------
(* One audit run of the oracle-capable runner whose messages are sent at   *)
(* different times; the oracle is disabled                                 *)

InitSummary == Init /\ ~enabled /\ ~keywordOnly

GetTimedMessages == FetchMessages(TimedBatches)

GetBusyCalendarEvents == QueryCalendar(BusyCalendars)

NextSummary ==
  \/ GetTimedMessages
  \/ EnhanceWithLLMAnalysis
  \/ GetBusyCalendarEvents
  \/ AnalyzeConflictsAndMissing

SpecSummary == InitSummary /\ [][NextSummary]_vars

----------------------------------------------------------------------------
(* One audit run of the oracle-capable runner on candidates that the       *)
(* fallback verdict turns down                                             *)

InitVerdict == Init /\ ~keywordOnly

GetWeakMessages == FetchMessages(WeakBatches)

NextVerdict ==
  \/ GetWeakMessages
  \/ EnhanceWithLLMAnalysis
  \/ GetBusyCalendarEvents
  \/ AnalyzeConflictsAndMissing

SpecVerdict == InitVerdict /\ [][NextVerdict]_vars

----------------------------------------------------------------------------
(* parseAnalysisResponse on its own: one response, parsed once *)

InitParse ==
  /\ keywordOnly = FALSE
  /\ enabled = TRUE
  /\ now = Monday
  /\ pc = "parseAnalysisResponse"
  /\ OnlyParse
  /\ response \in Responses
  /\ verdict = NoAnalysis

ParseAnalysisResponse ==
  /\ pc = "parseAnalysisResponse"
  /\ verdict' = parseAnalysisResponse(response)
  /\ pc' = "parsed"
  /\ UNCHANGED <<exceptParse, response>>

NextParse == ParseAnalysisResponse

SpecParse == InitParse /\ [][NextParse]_vars

----------------------------------------------------------------------------
(* parseDates and getNextWeekday on their own: one list of tokens on one   *)
(* day of the week, resolved once; one weekday, looked for once            *)

InitDates ==
  /\ keywordOnly = FALSE
  /\ enabled = FALSE
  /\ now \in Week
  /\ pc = "parseDates"
  /\ OnlyDate
  /\ dateStrings \in DateStrings
  /\ parsedDates = <<>>
  /\ targetDay = 0

ParseDates ==
  /\ pc = "parseDates"
  /\ parsedDates' = parseDates(dateStrings, now)
  /\ pc' = "resolved"
  /\ UNCHANGED <<exceptDate, dateStrings, targetDay>>

GetNextWeekday ==
  /\ pc = "parseDates"
  /\ \E day \in 0..6 :
       /\ targetDay' = day
       /\ parsedDates' = <<getNextWeekday(day, now)>>
  /\ pc' = "getNextWeekday"
  /\ UNCHANGED <<exceptDate, dateStrings>>

NextDates == ParseDates \/ GetNextWeekday

SpecDates == InitDates /\ [][NextDates]_vars

----------------------------------------------------------------------------
(* calculateConfidence on its own: the confidence of some numbers of       *)
(* matches, and then of one more date, time or name                        *)

InitConfidence ==
  /\ keywordOnly = FALSE
  /\ enabled = FALSE
  /\ now = Monday
  /\ pc = "calculateConfidence"
  /\ OnlyConfidence
  /\ counts \in Counts
  /\ confidences = NoConfidences

CalculateConfidence ==
  /\ pc = "calculateConfidence"
  /\ confidences' = Confidences(counts)
  /\ pc' = "scored"
  /\ UNCHANGED <<exceptConfidence, counts>>

CalculateConfidenceOfOneMore ==
  /\ pc = "scored"
  /\ \E kind \in {"dateMatches", "timeMatches", "nameMatches"} :
       /\ counts[kind] < MaxCount
       /\ counts' = [counts EXCEPT ![kind] = @ + 1]
  /\ confidences' = Confidences(counts')
  /\ UNCHANGED <<pc, exceptConfidence>>

NextConfidence == CalculateConfidence \/ CalculateConfidenceOfOneMore

SpecConfidence == InitConfidence /\ [][NextConfidence]_vars

----------------------------------------------------------------------------
(* analyzeMessage on its own: one message, analysed by each detector *)

InitAnalyze ==
  /\ keywordOnly = FALSE
  /\ enabled = FALSE
  /\ now = Monday
  /\ pc = "analyzeMessage"
  /\ OnlyAnalyze
  /\ \E text \in AnalyzeTexts :
       message = [id |-> 1, chatId |-> "chat", text |-> text,
                  timestamp |-> SentAt]
  /\ candidates = NoCandidates

AnalyzeMessage ==
  /\ pc = "analyzeMessage"
  /\ candidates' =
       [js |-> AnalyzeSignals(message, now, Signals(message.text)),
        ts |-> analyzeMessageTs(message)]
  /\ pc' = "analysed"
  /\ UNCHANGED <<exceptAnalyze, message>>

NextAnalyze == AnalyzeMessage

SpecAnalyze == InitAnalyze /\ [][NextAnalyze]_vars

----------------------------------------------------------------------------
(* getConversationContext on its own: the messages of a run and the        *)
(* detection of one of them; the context is handed to the oracle           *)

InitContext ==
  /\ keywordOnly = FALSE
  /\ enabled = TRUE
  /\ now = Monday
  /\ pc = "getConversationContext"
  /\ OnlyContext
  /\ allMessages \in RecentMessages
  /\ \E k \in 1..Len(allMessages) : target = TargetOf(allMessages[k])
  /\ contexts = NoContexts

GetConversationContext ==
  /\ pc = "getConversationContext"
  /\ contexts' =
       [runner |-> PromptMessages(getConversationContext(target, allMessages)),
        ts |-> PromptMessages(getConversationContextTs(target, allMessages))]
  /\ pc' = "handed"
  /\ UNCHANGED <<exceptContext, allMessages, target>>

NextContext == GetConversationContext

SpecContext == InitContext /\ [][NextContext]_vars

----------------------------------------------------------------------------
(* runStandaloneAudit: the loop over the files of data/users.  A file is   *)
(* [json, parses, configured, fails]: its name ends with .json, its        *)
(* content is valid JSON, the status of the user is fully_configured, and  *)
(* a step of the user's audit throws.                                      *)

UserFile(json, parses, configured, fails) ==
  [json |-> json, parses |-> parses, configured |-> configured,
   fails |-> fails]

\* the kinds of files
FileKinds ==
  { UserFile(FALSE, FALSE, FALSE, FALSE),
    UserFile(TRUE, FALSE, FALSE, FALSE),
    UserFile(TRUE, TRUE, FALSE, FALSE),
    UserFile(TRUE, TRUE, TRUE, FALSE),
    UserFile(TRUE, TRUE, TRUE, TRUE) }

Directories == UNION {[1..n -> FileKinds] : n \in 0..MaxFiles}

InitUsers ==
  /\ keywordOnly = FALSE
  /\ enabled = FALSE
  /\ now = Monday
  /\ pc = "runStandaloneAudit"
  /\ OnlyUsers
  /\ userFiles \in Directories
  /\ file = 1
  /\ auditedUsers = <<>>
  /\ logged = <<>>
  /\ exitCode = 0

\* auditUser: the error of a step is caught and logged
AuditUser ==
  /\ auditedUsers' = Append(auditedUsers, file)
  /\ logged' = IF userFiles[file].fails THEN Append(logged, file)
               ELSE logged

\* one iteration of the loop.  JSON.parse throws for a content that is not
\* valid JSON; the catch block logs the message of the error and then
\* reads fileContent, a constant of the block of try that is not in scope:
\* the ReferenceError leaves the loop for the outer catch block, which
\* logs it and calls process.exit(1)
NextFile ==
  /\ pc = "runStandaloneAudit"
  /\ file <= Len(userFiles)
  /\ IF ~userFiles[file].json
     THEN /\ file' = file + 1
          /\ UNCHANGED <<pc, auditedUsers, logged, exitCode>>
     ELSE IF ~userFiles[file].parses
     THEN /\ logged' = Append(logged, file)
          /\ exitCode' = 1
          /\ pc' = "exited"
          /\ UNCHANGED <<file, auditedUsers>>
     ELSE IF ~userFiles[file].configured
     THEN /\ file' = file + 1
          /\ UNCHANGED <<pc, auditedUsers, logged, exitCode>>
     ELSE /\ AuditUser
          /\ file' = file + 1
          /\ UNCHANGED <<pc, exitCode>>
  /\ UNCHANGED <<exceptUsers, userFiles>>

\* the end of the loop: the run has completed
Completed ==
  /\ pc = "runStandaloneAudit"
  /\ file > Len(userFiles)
  /\ pc' = "completed"
  /\ UNCHANGED <<exceptUsers, userFiles, file, auditedUsers, logged,
                 exitCode>>

NextUsers ==
  \/ NextFile
  \/ Completed

SpecUsers == InitUsers /\ [][NextUsers]_vars

----------------------------------------------------------------------------
(* CachedGreenApiService: calls of getChats and getLastThreeDaysMessages,  *)
(* one after the other, and the time between them                          *)

Resolves(data) == [ok |-> TRUE, limited |-> FALSE, data |-> data]

Rejects(limited) == [ok |-> FALSE, limited |-> limited, data |-> <<>>]

\* what the service can do when asked for the chats
ChatsUpstream ==
  {Rejects(FALSE), Resolves(<<>>), Resolves(<<"dana@c.us">>)}

\* what it can do when asked for the history of the chat
HistoryUpstream ==
  {Rejects(FALSE), Rejects(TRUE), Resolves(<<>>), Resolves(<<1>>),
   Resolves(<<2, 1>>)}

InitCache ==
  /\ keywordOnly = FALSE
  /\ enabled = FALSE
  /\ now = Monday
  /\ pc = "cachedGreenApi"
  /\ OnlyCache
  /\ cache = EmptyCache
  /\ clock = 0
  /\ everCached = {}
  /\ returned = NoCall
  /\ steps = 0

Call(method, result) ==
  /\ cache' = result.cache
  /\ everCached' = everCached \cup KeysSet(cache, result.cache)
  /\ returned' = [method |-> method, outcome |-> result.outcome,
                  data |-> result.data, failed |-> result.failed]
  /\ steps' = steps + 1
  /\ UNCHANGED <<exceptCache, pc, clock>>

GetChats ==
  /\ steps < MaxSteps
  /\ \E chats \in ChatsUpstream :
       Call("getChats", getChats(cache, clock, chats))

GetLastThreeDaysMessages ==
  /\ steps < MaxSteps
  /\ \E chats \in ChatsUpstream : \E history, again \in HistoryUpstream :
       Call("getLastThreeDaysMessages",
            getLastThreeDaysMessages(cache, clock, chats, history, again))

\* time passes: more than the life of an entry of messages, or of chats
Wait ==
  /\ steps < MaxSteps
  /\ \E elapsed \in {DEFAULT_TTL + 1, CHATS_TTL + 1} :
       clock' = clock + elapsed
  /\ steps' = steps + 1
  /\ UNCHANGED <<exceptCache, pc, cache, everCached, returned>>

NextCache ==
  \/ GetChats
  \/ GetLastThreeDaysMessages
  \/ Wait

SpecCache == InitCache /\ [][NextCache]_vars

----------------------------------------------------------------------------
(* The application: calls of runAudit by the cron tasks and directly       *)

InitApp ==
  /\ keywordOnly = FALSE
  /\ enabled = FALSE
  /\ now = Monday
  /\ pc = "startScheduledAudits"
  /\ OnlyApp
  /\ isRunning = FALSE
  /\ at = Idle
  /\ recipientPhone \in BOOLEAN
  /\ triggers = 0
  /\ skipped = 0
  /\ threw = 0

\* runAudit up to its return or its first await
RunAudit(caller) ==
  /\ at[caller] = "idle"
  /\ triggers < MaxTriggers
  /\ triggers' = triggers + 1
  /\ IF isRunning
     THEN /\ skipped' = skipped + 1
          /\ UNCHANGED <<isRunning, at>>
     ELSE /\ isRunning' = TRUE
          /\ at' = [at EXCEPT ![caller] = "performAudit"]
          /\ UNCHANGED skipped
  /\ UNCHANGED <<exceptApp, pc, recipientPhone, threw>>

\* the rest of runAudit when it is left: the catch block for a rejection,
\* and the finally block
Leave(caller, rejected) ==
  /\ isRunning' = Finally(isRunning, rejected)
  /\ at' = [at EXCEPT ![caller] = "idle"]
  /\ threw' = IF rejected THEN threw + 1 ELSE threw

\* performAudit settles: the summary is sent, or runAudit is left
PerformAuditSettles(caller) ==
  /\ at[caller] = "performAudit"
  /\ \E rejected \in BOOLEAN :
       IF ~rejected /\ recipientPhone
       THEN /\ at' = [at EXCEPT ![caller] = "sendSummary"]
            /\ UNCHANGED <<isRunning, threw>>
       ELSE Leave(caller, rejected)
  /\ UNCHANGED <<exceptApp, pc, recipientPhone, triggers, skipped>>

\* sendSummary settles
SendSummarySettles(caller) ==
  /\ at[caller] = "sendSummary"
  /\ \E rejected \in BOOLEAN : Leave(caller, rejected)
  /\ UNCHANGED <<exceptApp, pc, recipientPhone, triggers, skipped>>

Trigger == \E caller \in Callers : RunAudit(caller)

Settle ==
  \E caller \in Callers :
    PerformAuditSettles(caller) \/ SendSummarySettles(caller)

NextApp ==
  \/ Trigger
  \/ Settle

SpecApp == InitApp /\ [][NextApp]_vars

\* every audit ends: performAudit and sendSummary settle
SpecAppEnds == SpecApp /\ WF_vars(Settle)

----------------------------------------------------------------------------
(* What a finished run has reported *)

Done == pc = "done"

\* the iteration of enhanceWithLLMAnalysis for this candidate threw
Threw(d) == replies[d.messageId] = Thrown

\* the candidates the detector found, and those handed to the matcher
Candidates == {keywordDetections[k] : k \in 1..Len(keywordDetections)}

Meetings == {detectedMeetings[k] : k \in 1..Len(detectedMeetings)}

Events == {relevantEvents[k] : k \in 1..Len(relevantEvents)}

\* the positions in a result list of the records of the candidate with
\* this message id, and of those records that name this event
RecordsOf(list, id) == {k \in 1..Len(list) : list[k].meeting = id}

RecordsOfPair(list, id, eventId) ==
  {k \in RecordsOf(list, id) : list[k].event = eventId}

\* the authoritative dates of a candidate: the oracle's date when it gave
\* one that parses, else the dates the heuristic resolved
AuthoritativeDays(m) ==
  IF m.llmDateTime.given /\ m.llmDateTime.parses THEN {m.llmDateTime.day}
  ELSE {m.parsedDates[j] : j \in 1..Len(m.parsedDates)}

SameDayEvents(m) == {e \in Events : e.day \in AuthoritativeDays(m)}

\* the candidate has a time of the oracle, or a time token
HasOracleTime(m) ==
  m.llmDateTime.given /\ m.llmDateTime.parses /\ m.llmDateTime.colon

HasTime(m) == HasOracleTime(m) \/ m.detectedTime # <<>>

\* the time of day a candidate's time stands for includes hours:minutes.
\* A clock time or an hour stands for itself, after noon when marked pm
\* and at either half of the day when unmarked; a named part of the day
\* stands for its hours.
StandsFor(m, hours, minutes) ==
  IF HasOracleTime(m)
  THEN hours = m.llmDateTime.hours /\ minutes = m.llmDateTime.minutes
  ELSE LET token  == toLowerCase(m.detectedTime)
           digits == DigitsAndColons(token)
           colons == {i \in 1..Len(digits) : digits[i] = ":"}
           colon  == IF colons = {} THEN Len(digits) + 1 ELSE Min(colons)
           hh     == parseInt(SubSeq(digits, 1, colon - 1))
           mm     == IF colon >= Len(digits) THEN 0
                     ELSE parseInt(SubSeq(digits, colon + 1, Len(digits)))
           pm     == includes(token, <<"p", "m">>)
           am     == includes(token, <<"a", "m">>)
       IN IF digits # <<>>
          THEN /\ minutes = mm
               /\ hours \in (IF pm THEN {(hh % 12) + 12}
                             ELSE IF am THEN {hh % 12}
                             ELSE {hh, (hh % 12) + 12})
          ELSE IF includes(token, <<"m", "o", "r", "n", "i", "n", "g">>)
               THEN hours \in 5..11
          ELSE IF includes(token, <<"a", "f", "t", "e", "r", "n", "o", "o", "n">>)
               THEN hours \in 12..17
          ELSE IF includes(token, <<"e", "v", "e", "n", "i", "n", "g">>)
               THEN hours \in 17..23
          ELSE TRUE

\* the confidence a candidate is judged on, in thousandths: the oracle's
\* (0..100) when a verdict is present, else the heuristic's
JudgedConfidence(m) ==
  IF m.llmAnalysis.present THEN m.llmAnalysis.confidence * 10
  ELSE m.confidence

Reported(m) ==
  RecordsOf(confirmedMeetings \o conflicts \o missingEvents, m.messageId)

----------------------------------------------------------------------------
(* C1 *)

\* C1: a candidate handed to the matcher produces zero or one output record
\* in total across the Confirmed, Conflict and Missing lists.
C1_AtMostOneRecord ==
  Done => \A m \in Meetings : Cardinality(Reported(m)) <= 1

----------------------------------------------------------------------------
(* C2 *)

\* C2: a candidate with a time whose authoritative date is the start day of
\* an event, and whose time is the start time of none of the timed events
\* on that day, is reported as a Conflict and not as Missing, whatever the
\* kind of its time token.
C2_OtherTimeIsConflict ==
  Done =>
    \A m \in Meetings :
      LET timed == {e \in SameDayEvents(m) : e.timed}
      IN (/\ HasTime(m)
          /\ timed # {}
          /\ \A e \in timed : ~StandsFor(m, e.hours, e.minutes))
         => /\ RecordsOf(conflicts, m.messageId) # {}
            /\ RecordsOf(missingEvents, m.messageId) = {}

----------------------------------------------------------------------------
(* C3 *)

\* C3: a candidate and an event on the candidate's authoritative date give
\* a Confirmed record whose detail says the time is unclear, and no
\* Conflict record for the pair, when the candidate has no oracle time and
\* no time token, or the event is a date-only event.
C3_TimeUnclearIsConfirmed ==
  Done =>
    \A m \in Meetings : \A e \in SameDayEvents(m) :
      (~HasTime(m) \/ ~e.timed)
      => /\ \E k \in RecordsOfPair(confirmedMeetings, m.messageId, e.id) :
              confirmedMeetings[k].reason = "Date match, time unclear"
         /\ RecordsOfPair(conflicts, m.messageId, e.id) = {}

\* a run that confirmed a candidate without a time against a timed event,
\* and a candidate with a time against a date-only event
C3_Witness ==
  /\ Done
  /\ \E m \in Meetings : \E e \in SameDayEvents(m) :
       /\ ~HasTime(m) /\ e.timed
       /\ RecordsOfPair(confirmedMeetings, m.messageId, e.id) # {}
  /\ \E m \in Meetings : \E e \in SameDayEvents(m) :
       /\ HasTime(m) /\ ~e.timed
       /\ RecordsOfPair(confirmedMeetings, m.messageId, e.id) # {}

----------------------------------------------------------------------------
(* C4 *)

\* the Missing threshold of the runner, in thousandths
MissingThreshold == IF keywordOnly THEN 400 ELSE 600

\* C4: a candidate with no event on its authoritative date and a
\* confidence that does not exceed the Missing threshold is in none of the
\* three lists.
C4_LowConfidenceIsDropped ==
  Done =>
    \A m \in Candidates :
      (SameDayEvents(m) = {} /\ JudgedConfidence(m) <= MissingThreshold)
      => Reported(m) = {}

\* a finished run with a candidate that was handed to the matcher, has no
\* event on its date and is at or under the threshold
C4_Witness ==
  /\ Done
  /\ \E m \in Meetings :
       /\ SameDayEvents(m) = {}
       /\ JudgedConfidence(m) <= MissingThreshold
       /\ JudgedConfidence(m) > 300
       /\ Reported(m) = {}

----------------------------------------------------------------------------
(* C5 *)

\* C5 as stated: a candidate with no day match is reported as Missing
\* exactly when the confidence it is judged on (the oracle's, not a mean,
\* when a verdict is present) exceeds the threshold, which is 0.6 when an
\* oracle verdict is used and 0.4 when the oracle is disabled and the
\* candidate is judged on its heuristic confidence.
C5_ThresholdByOracle ==
  Done =>
    \A m \in Meetings :
      SameDayEvents(m) = {}
      => (RecordsOf(missingEvents, m.messageId) # {}
          <=> JudgedConfidence(m) > (IF enabled THEN 600 ELSE 400))

\* C5 amended: a candidate with no day match is reported as Missing exactly
\* when the confidence it is judged on exceeds the threshold of the runner:
\* 0.6 in the oracle-capable runner, where a verdict is present (the
\* oracle's, or the fallback verdict of a disabled or failed oracle) and
\* its confidence replaces the heuristic's unless the enrichment of the
\* candidate threw, and 0.4 in the keyword-only runner.  A candidate with
\* a day match is never Missing.
C5_ThresholdByRunner ==
  Done =>
    \A m \in Meetings :
      /\ ~keywordOnly /\ ~Threw(m) => m.llmAnalysis.present
      /\ RecordsOf(missingEvents, m.messageId) # {}
         <=> (SameDayEvents(m) = {} /\ JudgedConfidence(m) > MissingThreshold)

\* a finished run with the oracle where a candidate of heuristic
\* confidence above 0.6 and oracle confidence 60 is not Missing, and
\* another candidate is Missing
C5_Witness ==
  /\ Done /\ enabled
  /\ \E m \in Meetings :
       /\ SameDayEvents(m) = {}
       /\ m.confidence > 600
       /\ m.llmAnalysis.confidence = 60
       /\ RecordsOf(missingEvents, m.messageId) = {}
  /\ \E m \in Meetings : RecordsOf(missingEvents, m.messageId) # {}

----------------------------------------------------------------------------
(* C6 *)

\* C6: a candidate with a Confirmed record has no Conflict record, and a
\* candidate with a Confirmed or a Conflict record is not Missing.
C6_ListsAreExclusive ==
  Done =>
    \A m \in Meetings :
      /\ RecordsOf(confirmedMeetings, m.messageId) # {}
         => RecordsOf(conflicts, m.messageId) = {}
      /\ RecordsOf(confirmedMeetings \o conflicts, m.messageId) # {}
         => RecordsOf(missingEvents, m.messageId) = {}

----------------------------------------------------------------------------
(* C7 *)

\* the candidate of the message "Let's meet tomorrow at 3"
IsLetsMeet(m) == messages[m.messageId].text = Texts[1]

TuesdayAtThree(e) ==
  e.day = Monday + 1 /\ e.timed /\ e.hours = 15 /\ e.minutes = 0

\* C7 as stated: with the oracle disabled, the message "Let's meet tomorrow
\* at 3" sent on a Monday is a candidate whose date is the following
\* Tuesday and whose heuristic confidence is above 0.3, and against an
\* event on that Tuesday at 15:00 it gives a Confirmed record whose detail
\* says that date and time match.
C7_ConfirmedDateAndTime ==
  (Done /\ ~enabled) =>
    \A m \in Candidates :
      IsLetsMeet(m)
      => /\ m.parsedDates = <<Monday + 1>>
         /\ m.confidence > 300
         /\ \A e \in Events :
              TuesdayAtThree(e)
              => \E k \in RecordsOfPair(confirmedMeetings, m.messageId, e.id) :
                   confirmedMeetings[k].reason = "Time and date match"

\* C7 amended: with the oracle disabled and the audit run on the Monday
\* the message was sent, the message "Let's meet tomorrow at 3" is a
\* candidate whose date is the following Tuesday, whose heuristic
\* confidence is above 0.3 and which has no time token (a bare "3" is not
\* one); it is handed to the matcher and against an event on that Tuesday
\* at 15:00 it gives one Confirmed record, whose detail is "Date match,
\* time unclear".
C7_ConfirmedDateOnly ==
  (Done /\ ~enabled /\ now = Monday) =>
    \A m \in Candidates :
      IsLetsMeet(m)
      => /\ m.parsedDates = <<Monday + 1>>
         /\ m.confidence > 300
         /\ m.detectedTime = <<>>
         /\ m \in Meetings
         /\ \A e \in Events :
              TuesdayAtThree(e)
              => /\ Cardinality(RecordsOfPair(confirmedMeetings,
                                              m.messageId, e.id)) = 1
                 /\ \A k \in RecordsOfPair(confirmedMeetings, m.messageId, e.id) :
                      confirmedMeetings[k].reason = "Date match, time unclear"

\* a finished run of the oracle-capable runner, oracle disabled, on the
\* Monday, with the message and the event, and the message confirmed
C7_Witness ==
  /\ Done /\ ~enabled /\ ~keywordOnly /\ now = Monday
  /\ \E m \in Meetings : \E e \in Events :
       /\ IsLetsMeet(m)
       /\ TuesdayAtThree(e)
       /\ RecordsOfPair(confirmedMeetings, m.messageId, e.id) # {}

----------------------------------------------------------------------------
(* C8 *)

FallbackReasoning ==
  "Claude analysis unavailable, using fallback keyword detection"

\* C8: the oracle is called at most once per candidate: exactly once for
\* each candidate the loop has passed and not yet for the others; a call
\* that failed or came back empty has left the fallback verdict on its
\* candidate, and the loop has moved on.
C8_OneCallPerCandidate ==
  /\ \A id \in 1..MaxMsgs : oracleCalls[id] <= 1
  /\ \A k \in 1..Len(keywordDetections) :
       LET d == keywordDetections[k]
       IN /\ oracleCalls[d.messageId] =
               (IF enabled /\ k < next /\ ~Threw(d) THEN 1 ELSE 0)
          /\ replies[d.messageId].kind \in {"error", "empty"}
             => /\ k < next
                /\ d.llmAnalysis.present
                /\ d.llmAnalysis.reasoning = FallbackReasoning

\* the call for the first candidate failed, and the second candidate has
\* had its call
C8_Witness ==
  /\ Len(keywordDetections) = 2
  /\ next = 3
  /\ replies[keywordDetections[1].messageId].kind = "error"
  /\ oracleCalls[keywordDetections[1].messageId] = 1
  /\ oracleCalls[keywordDetections[2].messageId] = 1

----------------------------------------------------------------------------
(* C9 *)

\* the candidates the oracle was asked about
Asked ==
  {k \in 1..Len(keywordDetections) :
     enabled /\ k < next /\ ~Threw(keywordDetections[k])}

Unparseable(reply) == reply.kind = "text" /\ reply.text \in WithoutObject

\* C9 as stated: when the call fails, times out, returns nothing or
\* returns text that cannot be parsed, the adapter returns a verdict with
\* confidence 0.
C9_FailureIsZeroConfidence ==
  \A k \in Asked :
    LET d == keywordDetections[k]
        reply == replies[d.messageId]
    IN (reply.kind \in {"error", "empty"} \/ Unparseable(reply))
       => d.llmAnalysis.present /\ d.llmAnalysis.confidence = 0

\* C9 amended: the adapter always returns a verdict.  When the call fails,
\* times out or returns nothing, it is the fallback verdict: confidence is
\* the heuristic confidence on the scale 0..100 (at least 30 for a
\* candidate), valid exactly when the candidate has a date or a time token
\* and that confidence is above 30.  Only text that cannot be parsed gives
\* confidence 0 and an invalid verdict.
C9_FailureIsFallback ==
  \A k \in Asked :
    LET d == keywordDetections[k]
        reply == replies[d.messageId]
    IN /\ d.llmAnalysis.present
       /\ reply.kind \in {"error", "empty"}
          => /\ d.llmAnalysis.confidence * 10 = d.confidence
             /\ d.llmAnalysis.confidence >= 30
             /\ d.llmAnalysis.isValidMeeting
                <=> /\ d.detectedDate # <<>> \/ d.detectedTime # <<>>
                    /\ d.llmAnalysis.confidence > 30
       /\ Unparseable(reply)
          => d.llmAnalysis.confidence = 0 /\ ~d.llmAnalysis.isValidMeeting

\* the oracle failed or returned nothing for one candidate, which got a
\* verdict of confidence above 0, and returned text that cannot be parsed
\* for another
C9_Witness ==
  \E j \in Asked : \E k \in Asked :
    /\ replies[keywordDetections[j].messageId].kind \in {"error", "empty"}
    /\ keywordDetections[j].llmAnalysis.confidence > 0
    /\ Unparseable(replies[keywordDetections[k].messageId])

----------------------------------------------------------------------------
(* C10 *)

\* C10: with the oracle disabled no call is made, and the verdict of each
\* candidate is a function of the candidate: valid exactly when it has a
\* date or a time token and its heuristic confidence is above 0.3, with
\* the heuristic confidence on the scale 0..100.
C10_DisabledIsFallback ==
  ~enabled =>
    /\ \A id \in 1..MaxMsgs :
         oracleCalls[id] = 0 /\ replies[id] \in {NoReply, Thrown}
    /\ ~keywordOnly =>
         \A k \in 1..Len(keywordDetections) :
           LET d == keywordDetections[k]
           IN IF k < next /\ ~Threw(d)
              THEN /\ d.llmAnalysis.present
                   /\ d.llmAnalysis.isValidMeeting
                      <=> /\ d.detectedDate # <<>> \/ d.detectedTime # <<>>
                          /\ d.confidence > 300
                   /\ d.llmAnalysis.confidence * 10 = d.confidence
                   /\ d.llmAnalysis.reasoning = FallbackReasoning
              ELSE ~d.llmAnalysis.present

\* with the oracle disabled one candidate got a valid verdict and another,
\* of confidence above 0.3 without date or time, an invalid one
C10_Witness ==
  /\ ~enabled /\ ~keywordOnly
  /\ \E k \in 1..Len(keywordDetections) :
       k < next /\ keywordDetections[k].llmAnalysis.isValidMeeting
  /\ \E k \in 1..Len(keywordDetections) :
       /\ k < next
       /\ keywordDetections[k].confidence > 300
       /\ ~keywordDetections[k].llmAnalysis.isValidMeeting

----------------------------------------------------------------------------
(* What parseAnalysisResponse has returned *)

Returned == pc = "parsed"

\* the objects a response is made of by one of the given ways
ObjectsIn(Ways(_)) == {object \in Objects : response \in Ways(object)}

----------------------------------------------------------------------------
(* C11 *)
(* A response that has no JSON object (nothing, prose, a JSON value of     *)
(* another type, an object cut off before its end) is answered with a      *)
(* verdict, and the verdict is "no meeting" with confidence 0.             *)

C11_NoObjectIsNoMeeting ==
  Returned /\ response \in WithoutObject =>
    /\ verdict.present
    /\ ~verdict.isValidMeeting
    /\ verdict.confidence = 0

\* the cut-off object has been answered with the verdict of the catch block
C11_Witness ==
  /\ Returned
  /\ response \in WithoutObject
  /\ charAt(response, 1) = "{"
  /\ verdict = ParseFailure

----------------------------------------------------------------------------
(* C12 *)
(* The confidence of every verdict parseAnalysisResponse returns is a      *)
(* number from 0 to 100.                                                   *)

C12_ConfidenceInRange == Returned => verdict.confidence \in 0..100

----------------------------------------------------------------------------
(* C13 *)
(* A response that has text before or after a JSON object, braces in the   *)
(* text after it included, is answered with the verdict of that object.    *)

Surrounded(object) ==
  {Introduced(object), Followed(object), FollowedByBraces(object)}

C13_FirstObjectIsParsed ==
  Returned =>
    \A object \in ObjectsIn(Surrounded) :
      JSONparse(object).ok /\ verdict = Verdict(JSONparse(object).value)

----------------------------------------------------------------------------
(* C14 *)
(* A response that is a JSON object in a code fence, with or without the   *)
(* language json, is answered with the verdict that the object alone is    *)
(* answered with.                                                          *)

InFence(object) == {Fenced(object), FencedPlain(object)}

C14_FencedIsBare ==
  Returned =>
    \A object \in ObjectsIn(InFence) :
      verdict = parseAnalysisResponse(object)

\* a fenced object has been answered with the meeting the object tells
C14_Witness ==
  /\ Returned
  /\ response = Fenced(ObjectText(TrueText, <<"8", "5">>, TuesdayAt15))
  /\ verdict.isValidMeeting
  /\ verdict.confidence = 85
  /\ verdict.extractedDateTime = DateTime(TRUE, TRUE, Monday + 1, 15, 0)

----------------------------------------------------------------------------
(* C15 *)

\* the candidates whose iteration of enhanceWithLLMAnalysis is over
Passed == {keywordDetections[k] : k \in 1..(next - 1)}

\* C15 as stated: a candidate whose processing threw an exception is not
\* handed to the matcher and has no record.
C15_ThrownIsDropped ==
  \A d \in Passed :
    Threw(d) => d \notin Meetings /\ (Done => Reported(d) = {})

\* C15 amended: a candidate whose enrichment threw an exception is kept as
\* the detector found it, without a verdict or a date of the oracle, and
\* is handed to the matcher, which judges it on its heuristic confidence;
\* the loop goes on to the other candidates, each of which gets its
\* verdict.
C15_ThrownIsKept ==
  /\ \A d \in Passed :
       IF Threw(d)
       THEN /\ d \in Meetings
            /\ ~d.llmAnalysis.present
            /\ ~d.llmDateTime.given
            /\ Done /\ SameDayEvents(d) = {}
               => (RecordsOf(missingEvents, d.messageId) # {}
                   <=> d.confidence > 600)
            /\ Done /\ SameDayEvents(d) # {} => Reported(d) # {}
       ELSE d.llmAnalysis.present
  /\ Done /\ ~keywordOnly => Passed = Candidates

\* the enrichment of the first of two candidates threw; the run has
\* finished with a record for it and with the second candidate, which
\* has its verdict, handed to the matcher too
C15_Witness ==
  /\ Done
  /\ Len(keywordDetections) = 2
  /\ Threw(keywordDetections[1])
  /\ Reported(keywordDetections[1]) # {}
  /\ ~Threw(keywordDetections[2])
  /\ keywordDetections[2].llmAnalysis.present
  /\ keywordDetections[2] \in Meetings

----------------------------------------------------------------------------
(* C16 *)
(* An event without start is passed over by the matcher: the run does not  *)
(* fail, and it ends with the records that the matcher gives for the       *)
(* events that have their start.                                           *)

C16_MalformedIsSkipped ==
  /\ pc # "failed"
  /\ Done =>
       LET records ==
             analyzeConflictsAndMissing(
               keywordOnly, detectedMeetings,
               SelectSeq(relevantEvents, LAMBDA event : event.start))
       IN /\ confirmedMeetings = ListOf(records, "confirmedMeetings")
          /\ conflicts = ListOf(records, "conflicts")
          /\ missingEvents = ListOf(records, "missingEvents")

----------------------------------------------------------------------------
(* What parseDates and getNextWeekday have returned *)

Resolved == pc = "resolved"

\* the tokens that name the weekday (0 = Sunday): monday..sunday, and
\* ראשון = Sunday .. שבת = Saturday
Naming(weekday) ==
  {EnglishWeekday[IF weekday = 0 THEN 7 ELSE weekday],
   HebrewWeekday[weekday + 1]}

\* the next future occurrence of the weekday after the day
NextOccurrence(weekday, day) ==
  CHOOSE date \in (day + 1)..(day + 7) : getDay(date) = weekday

----------------------------------------------------------------------------
(* C17 *)
(* A token that names a weekday, in English or in Hebrew, is resolved on   *)
(* every day of the week to the next future occurrence of the weekday it   *)
(* names.                                                                  *)

C17_NamedWeekdayIsResolved ==
  Resolved =>
    \A weekday \in 0..6 :
      (dateStrings # <<>> /\ dateStrings[1] \in Naming(weekday)) =>
        /\ parsedDates # <<>>
        /\ parsedDates[1] = NextOccurrence(weekday, now)

----------------------------------------------------------------------------
(* C18 *)
(* getNextWeekday, given a weekday on a day of the run, returns a day from *)
(* one to seven days after the day of the run; given the weekday of the    *)
(* day of the run itself, the day seven days after it.                     *)

C18_NextWeekdayIsAhead ==
  pc = "getNextWeekday" =>
    /\ Len(parsedDates) = 1
    /\ parsedDates[1] \in (now + 1)..(now + 7)
    /\ getDay(now) = targetDay => parsedDates[1] = now + 7

C18_Witness ==
  /\ pc = "getNextWeekday"
  /\ getDay(now) = targetDay
  /\ parsedDates = <<now + 7>>

----------------------------------------------------------------------------
(* The days of the calendar *)

\* the year of a numeric date: a year of two digits is of this century
FullYear(year) == IF year < 100 THEN 2000 + year ELSE year

\* the calendar has this day of this month (1 = January)
RealDay(year, month, day) ==
  month \in 1..12 /\ day \in 1..DaysInMonth(year, month)

\* the day number of a day of the calendar
CivilDay(year, month, day) == DaysFromCivil(year, month, day) + 4

----------------------------------------------------------------------------
(* C19 *)
(* A numeric token D/M/Y, D-M-Y or D.M.Y that names a day of the calendar  *)
(* is resolved to day D of month M of year Y, of year 2000 + Y when Y has  *)
(* two digits; and no numeric token is resolved to day M of month D.       *)

C19_DayBeforeMonth ==
  Resolved =>
    \A date \in NumericDates :
      (dateStrings # <<>> /\ dateStrings[1] = NumericToken(date)) =>
        /\ RealDay(FullYear(date.year), date.month, date.day) =>
             /\ parsedDates # <<>>
             /\ parsedDates[1] =
                  CivilDay(FullYear(date.year), date.month, date.day)
        /\ ( /\ date.day # date.month
             /\ RealDay(FullYear(date.year), date.day, date.month)
             /\ parsedDates # <<>> ) =>
             parsedDates[1] #
               CivilDay(FullYear(date.year), date.day, date.month)

\* 15/12/2024 is resolved to 15 December 2024, the day before the Monday
C19_Witness ==
  /\ Resolved
  /\ dateStrings =
       <<NumericToken([day |-> 15, month |-> 12, year |-> 2024,
                       separator |-> "/", padded |-> TRUE])>>
  /\ parsedDates = <<Monday - 1>>

----------------------------------------------------------------------------
(* C20 *)
(* parseDates returns the days of the tokens that name a day, and nothing  *)
(* for a token that names none: a numeric token whose day or month the     *)
(* calendar does not have, or a week phrase, which no rule resolves.       *)

\* the tokens that name no day
NamingNoDay ==
  {WeekPhrase[k] : k \in 1..Len(WeekPhrase)}
    \cup {NumericToken(date) :
            date \in {d \in NumericDates :
                        ~RealDay(FullYear(d.year), d.month, d.day)}}

C20_NoDayIsDropped ==
  Resolved =>
    parsedDates =
      parseDates(SelectSeq(dateStrings, LAMBDA token : token \notin NamingNoDay),
                 now)

----------------------------------------------------------------------------
(* C21 *)
(* In both detectors the confidence is from 0 to 1 (1000 thousandths) for  *)
(* all numbers of matches, and with one more date, time or name, the       *)
(* keywords being the same, it is not less than before.                    *)

Scored == pc = "scored"

C21_InRangeAndMonotone ==
  /\ [](Scored => /\ confidences.js \in 0..1000
                  /\ confidences.ts \in 0..1000)
  /\ [][(Scored /\ counts'.keywordMatches = counts.keywordMatches) =>
          /\ confidences'.js >= confidences.js
          /\ confidences'.ts >= confidences.ts]_vars

\* the confidence of two matches of each kind is 1 in both detectors, the
\* sum of the parts being 1.5
C21_Witness ==
  /\ Scored
  /\ counts = [keywordMatches |-> 2, dateMatches |-> 2, timeMatches |-> 2,
               nameMatches |-> 2]
  /\ confidences = [js |-> 1000, ts |-> 1000]

----------------------------------------------------------------------------
(* What analyzeMessage has returned *)

Analysed == pc = "analysed"

\* the text has none of the keywords in it, case ignored
NoKeywordIn(text, keywords) ==
  \A k \in 1..Len(keywords) :
    ~includes(toLowerCase(text), toLowerCase(keywords[k]))

----------------------------------------------------------------------------
(* C22 *)
(* A message whose text has none of the keywords of a detector in it gets  *)
(* no candidate from that detector, whatever dates, times and names the    *)
(* text has.                                                               *)

C22_NoKeywordNoCandidate ==
  Analysed =>
    /\ NoKeywordIn(message.text, hebrewKeywords \o englishKeywords) =>
         candidates.js = <<>>
    /\ NoKeywordIn(message.text, hebrewKeywordsTs \o englishKeywordsTs) =>
         candidates.ts = <<>>

\* a text with two dates, two times and two names and no keyword
C22_Witness ==
  /\ Analysed
  /\ message.text = DatePart[3] \o TimePart[3] \o NamePart[3]
  /\ NoKeywordIn(message.text, hebrewKeywords \o englishKeywords)
  /\ Len(extractDates(message.text)) = 2
  /\ Len(extractTimes(message.text)) = 2
  /\ Len(extractNames(message.text)) = 2
  /\ candidates = NoCandidates

----------------------------------------------------------------------------
(* C30 *)
(* A message whose text has a keyword of a detector in it gets a candidate *)
(* from that detector, of a confidence of 0.3 at least, whatever dates,    *)
(* times and names the text has: the least confidence that a detector      *)
(* asks for (0.1 and 0.3) discards no such message.                        *)

C30_KeywordIsCandidate ==
  Analysed =>
    /\ ~NoKeywordIn(message.text, hebrewKeywords \o englishKeywords) =>
         /\ candidates.js # <<>>
         /\ candidates.js[1].confidence >= 300
    /\ ~NoKeywordIn(message.text, hebrewKeywordsTs \o englishKeywordsTs) =>
         /\ candidates.ts # <<>>
         /\ candidates.ts[1].confidence >= 300

\* a text of one keyword and nothing else is a candidate of confidence 0.3
C30_Witness ==
  /\ Analysed
  /\ message.text = KeywordPart[2]
  /\ candidates.js # <<>> /\ candidates.js[1].confidence = 300
  /\ candidates.ts # <<>> /\ candidates.ts[1].confidence = 300

----------------------------------------------------------------------------
(* C23 *)
(* Every message handed to the oracle as the context of a detection is of  *)
(* the chat of the detection, and was sent at most two hours before or     *)
(* after it.                                                               *)

Handed == pc = "handed"

\* the messages are of the chat of the detection and of its two hours
OfTheConversation(context) ==
  \A k \in 1..Len(context) :
    /\ context[k].chatId = target.chatId
    /\ context[k].timestamp - target.timestamp <= contextWindow
    /\ target.timestamp - context[k].timestamp <= contextWindow

C23_ContextIsOfTheChat ==
  Handed =>
    /\ OfTheConversation(contexts.runner)
    /\ OfTheConversation(contexts.ts)

----------------------------------------------------------------------------
(* C24 *)
(* The calendar is asked for the days of the dates of the meetings, each   *)
(* day once and no other day: the day of the oracle's date when a meeting  *)
(* has one that parses, else the days the detector resolved; without       *)
(* meetings it is asked once, for the days from now to now + 7.            *)
(* Violated: for a meeting without any date the calendar is asked for      *)
(* today and tomorrow, days whose events the matcher never compares.       *)

Queried == pc \in {"analyzeConflictsAndMissing", "done", "failed"}

\* the calendar was asked for these days, once for each
AskedForEach(days) ==
  /\ {queries[k] : k \in 1..Len(queries)} =
       {[from |-> day, to |-> day] : day \in days}
  /\ Len(queries) = Cardinality(days)

C24_DaysOfTheDates ==
  Queried =>
    IF detectedMeetings = <<>>
    THEN queries = <<[from |-> now, to |-> now + 7]>>
    ELSE AskedForEach(UNION {AuthoritativeDays(detectedMeetings[k]) :
                               k \in 1..Len(detectedMeetings)})

----------------------------------------------------------------------------
(* C25 *)
(* In the summary each of the lists of conflicts and of missing events     *)
(* shows at most 3 entries, in ascending order of the timestamps of their  *)
(* messages, and its heading counts all the records of the list.           *)
(* Violated: the entries follow the messages, which getRecentMessages      *)
(* sorts newest first.                                                     *)

Sent == pc = "done" /\ summary.sent

\* the timestamp of the message of a record
TimestampOf(record) ==
  LET msg == CHOOSE m \in {messages[k] : k \in 1..Len(messages)} :
               m.id = record.meeting
  IN msg.timestamp

Ascending(shown) ==
  \A i, j \in 1..Len(shown) :
    i < j => TimestampOf(shown[i]) <= TimestampOf(shown[j])

C25_ShownAscending ==
  Sent =>
    /\ Len(summary.conflicts.shown) <= 3
    /\ Len(summary.missingEvents.shown) <= 3
    /\ Ascending(summary.conflicts.shown)
    /\ Ascending(summary.missingEvents.shown)
    /\ summary.conflicts.count = Len(conflicts)
    /\ summary.missingEvents.count = Len(missingEvents)

----------------------------------------------------------------------------
(* C26 *)
(* In the oracle-capable runner a candidate is handed to the matcher only  *)
(* if its verdict says isValidMeeting with a confidence above 50, or if    *)
(* its enrichment threw; with the oracle disabled a candidate whose        *)
(* enrichment did not throw and that has neither a date token nor a time   *)
(* token, or a heuristic confidence of at most 0.5, is not handed over and *)
(* has no record.                                                          *)

\* the verdict of the candidate says isValidMeeting with a confidence
\* above 50
Validated(d) ==
  d.llmAnalysis.present /\ d.llmAnalysis.isValidMeeting
    /\ d.llmAnalysis.confidence > 50

\* the candidate has neither a date token nor a time token, or its
\* heuristic confidence is at most 0.5
Weak(d) ==
  \/ d.detectedDate = <<>> /\ d.detectedTime = <<>>
  \/ d.confidence <= 500

HandedOver(d) == \E m \in Meetings : m.messageId = d.messageId

----------------------------------------------------------------------------
(* C27 *)
(* A failure of one user, a file whose content is not valid JSON or an     *)
(* error inside the audit of the user, is logged and skipped: the run ends *)
(* without a failure exit and with every fully configured user audited.    *)
(* Violated: the catch block of a file that is not valid JSON throws, and  *)
(* the run ends with process.exit(1) before the files after it.            *)

Ended == pc \in {"completed", "exited"}

\* the files of the users that are fully configured
FullyConfigured ==
  {k \in 1..Len(userFiles) :
     userFiles[k].json /\ userFiles[k].parses /\ userFiles[k].configured}

C27_FailureIsSkipped ==
  Ended =>
    /\ exitCode = 0
    /\ {auditedUsers[k] : k \in 1..Len(auditedUsers)} = FullyConfigured
    /\ \A k \in 1..Len(userFiles) :
         userFiles[k].json /\ (~userFiles[k].parses \/ userFiles[k].fails)
           => \E i \in 1..Len(logged) : logged[i] = k

----------------------------------------------------------------------------
(* C28 *)
(* A call of getChats or getLastThreeDaysMessages whose fetch fails while  *)
(* the cache holds an expired entry for its key returns the data of that   *)
(* entry; it throws only when its key was never cached.                    *)
(* Violated: getCache deletes the expired entry before the fetch, so the   *)
(* catch block finds no entry and throws.                                  *)

KeyOf(method) == IF method = "getChats" THEN ChatsKey ELSE MessagesKey

\* the step is a call of the method
Calls(method) == steps' = steps + 1 /\ clock' = clock /\ returned'.method = method

C28_StaleIsReturned ==
  [][\A method \in {"getChats", "getLastThreeDaysMessages"} :
       Calls(method) =>
         /\ returned'.failed /\ cache[KeyOf(method)].present
              /\ isExpired(cache[KeyOf(method)], clock)
            => /\ returned'.outcome = "stale"
               /\ returned'.data = cache[KeyOf(method)].data
         /\ returned'.outcome = "thrown" => KeyOf(method) \notin everCached]_vars

----------------------------------------------------------------------------
(* C29 *)
(* At most one audit is in progress at a time, and isRunning says whether  *)
(* one is; a call of runAudit during an audit returns without starting     *)
(* one; and when every audit ends, isRunning is false again after each,    *)
(* whether it succeeded or threw.                                          *)

InProgress == {caller \in Callers : at[caller] # "idle"}

C29_OneAuditAtATime ==
  /\ [](Cardinality(InProgress) <= 1 /\ (isRunning <=> InProgress # {}))
  /\ [][triggers' = triggers + 1 /\ isRunning =>
          at' = at /\ skipped' = skipped + 1]_vars
  /\ [][threw' = threw + 1 => ~isRunning']_vars
  /\ (isRunning ~> ~isRunning)

\* an audit has thrown and a call made during an audit was skipped; a later
\* call has started the audit that is in progress
C29_Witness ==
  /\ threw >= 1
  /\ skipped >= 1
  /\ triggers >= 3
  /\ isRunning
  /\ Cardinality(InProgress) = 1

====
